---- MODULE Spec2Model ----
(***************************************************************************)
(* Playback substrate of GraphLab: the GraphAnimation playback controller  *)
(* (components/animations/GraphAnimation.tsx) and the CompareMST           *)
(* synchronization layer (components/animations/CompareMST.tsx), as        *)
(* mounted by MainContent.                                                 *)
(*                                                                         *)
(* React execution model used throughout:                                  *)
(*  - a click / change handler dispatches its state updates, React renders *)
(*    and runs the effects before any other task runs: one atomic action;  *)
(*  - a setTimeout callback only dispatches its update (TimerFire); the    *)
(*    render happens in a later task (Flush).  A handler that runs in      *)
(*    between still sees the values of the last render in its closure;     *)
(*  - a render drains the whole update queue in dispatch order.            *)
(***************************************************************************)
EXTENDS Integers, Sequences, FiniteSets, TLC

\* ---------------------------------------------------------------- bounds
MaxLen == 3            \* longest trace (steps.length) explored
MaxSliderTicks == 2    \* slider positions explored above the minimum
MaxLoads == 3          \* content loads started by MainContent in one run

\* ------------------------------------------------------ program constants
DefaultSpeed == 1500
SliderMin == 200
SliderStep == 100
SliderOffset == 3200

GA == {"solo", "prims", "kruskals"}     \* GraphAnimation instances
Children == {"prims", "kruskals"}       \* the two instances CompareMST renders
Comp == GA \cup {"mst"}                 \* every component holding playback state

VARIABLES
  view,          \* which component MainContent has mounted: "single" | "mst"
  steps,         \* [GA -> Nat]      length of the steps prop (0: not mounted)
  internalStep,  \* [GA -> Nat]      GraphAnimation's own step state
  step,          \* Nat              CompareMST's step state (the shared index)
  isPlaying,     \* [Comp -> BOOLEAN]
  speed,         \* [Comp -> Nat]
  queue,         \* updates dispatched to the mounted step state, not yet rendered
  timers,        \* pending setTimeout tasks
  held,          \* [Comp -> Nat]    handle kept by the timer effect's cleanup (0: none)
  rendered,      \* [GA -> Nat]      index of the Step each instance draws
  last,          \* history: the last operation and the state it started from
  gen,           \* the generateSteps call in progress: its locals and its trace
  main           \* MainContent: its topic prop, its state and the loads it awaits

vars == <<view, steps, internalStep, step, isPlaying, speed, queue, timers,
          held, rendered, last, gen, main>>

\* the playback state, which a generateSteps call never touches
playback == <<view, steps, internalStep, step, isPlaying, speed, queue, timers,
              held, rendered, last>>

\* no generator is running
NoGen == [alg |-> "none"]

\* MainContent as mounted by App with no topic selected: its useState initial
\* values, no load awaited ("" stands for null and for the empty string)
MainHome ==
  [topic |-> "", content |-> "", animationData |-> "", comparisonType |-> "",
   customComponent |-> "", isLoading |-> FALSE, error |-> "",
   pending |-> {}, issued |-> 0, current |-> 0, fetches |-> 0,
   last |-> [op |-> "mount", kind |-> "", ok |-> TRUE, stale |-> FALSE, was |-> FALSE]]

\* ----------------------------------------------------------------- helpers
Min(a, b) == IF a < b THEN a ELSE b
Max(a, b) == IF a > b THEN a ELSE b

Mounted(g) == IF view = "single" THEN g = "solo" ELSE g \in Children

\* the slider positions of <input type="range" min max step>
SliderValues == { SliderMin + k * SliderStep : k \in 0..MaxSliderTicks }

\* onChange: setSpeed(3200 - Number(e.target.value))
SpeedOfSlider(v) == SliderOffset - v

\* state updates: setStep(n) | setStep(s => s + 1) | setStep(s => s - 1)
SetTo(n) == [op |-> "set", v |-> n]
Inc == [op |-> "inc", v |-> 0]
Dec == [op |-> "dec", v |-> 0]

ApplyUpdate(s, u) ==
  CASE u.op = "set" -> u.v
    [] u.op = "inc" -> s + 1
    [] u.op = "dec" -> s - 1

RECURSIVE Reduce(_, _)
Reduce(s, q) == IF q = <<>> THEN s ELSE Reduce(ApplyUpdate(s, Head(q)), Tail(q))

\* ------------------------------------------------- props and derived values
\* CompareMST: const maxSteps = Math.max(prims.steps.length, kruskals.steps.length)
MaxStepsOf(lens) == Max(lens["prims"], lens["kruskals"])
maxSteps == MaxStepsOf(steps)

\* variant: Math.max in place of Math.min
ExternalStepOf_max(st, n) == Max(st, n - 1)

\* CompareMST: externalStep={Math.min(step, prims.steps.length - 1)}
ExternalStepOf(st, n) == Min(st, n - 1)
externalStep(g) == ExternalStepOf(step, steps[g])

\* GraphAnimation: externalStep !== undefined && onStepChange !== undefined;
\* only CompareMST passes the two props
isExternallyControlled(g) == view = "mst" /\ g \in Children

\* GraphAnimation: const step = isExternallyControlled ? externalStep : internalStep
gaStep(g) == IF isExternallyControlled(g) THEN externalStep(g) ELSE internalStep[g]

\* variant: the player controls are rendered in every mode
ControlsShown_always(g) == TRUE

\* GraphAnimation: {!isExternallyControlled && ( ...player controls... )}
ControlsShown(g) == ~isExternallyControlled(g)

\* GraphAnimation: currentStep = steps[step] || steps[steps.length - 1]
CurrentStepIndex(st, n) == IF st \in 0..(n - 1) THEN st ELSE n - 1

\* the step state the mounted view owns, and the component owning it
Root == IF view = "single" THEN "solo" ELSE "mst"
Index == IF view = "single" THEN internalStep["solo"] ELSE step
TraceLen == IF view = "single" THEN steps["solo"] ELSE maxSteps

\* ------------------------------------------------------------ timer effect
\* setTimeout returns a handle not in use
FreshId(T) == CHOOSE i \in 1..(Cardinality(T) + 1) : \A t \in T : t.id # i

\* variant: the effect returns no cleanup, the old timeout stays pending
ClearTimeout_none(T, h) == T

\* return () => clearTimeout(timer)
ClearTimeout(T, h) == { t \in T : t.id # h }

\* variant: no else branch, play at the last index is left on
RunTimerEffect_noStop(c, st, pl, n, sp, T, h, changed) ==
  IF ~changed
    THEN [timers |-> T, held |-> h, stop |-> FALSE]
    ELSE LET T1 == ClearTimeout(T, h)
         IN IF pl /\ st < n - 1
              THEN LET id == FreshId(T1)
                   IN [timers |-> T1 \cup {[id |-> id, owner |-> c, from |-> st, delay |-> sp]},
                       held |-> id, stop |-> FALSE]
              ELSE [timers |-> T1, held |-> 0, stop |-> FALSE]

\* useEffect(() => { if (isPlaying) { if (step < n - 1) { timer = setTimeout(..., speed);
\*   return () => clearTimeout(timer) } else setIsPlaying(false) } }, [step, isPlaying, n, speed])
\* c: the component, st/pl/n/sp: the values of this render, T: pending timers,
\* h: the handle the previous run's cleanup holds, changed: some dependency changed.
\* stop: the effect called setIsPlaying(false).
RunTimerEffect(c, st, pl, n, sp, T, h, changed) ==
  IF ~changed
    THEN [timers |-> T, held |-> h, stop |-> FALSE]
    ELSE LET T1 == ClearTimeout(T, h)
         IN IF pl
              THEN IF st < n - 1
                     THEN LET id == FreshId(T1)
                          IN [timers |-> T1 \cup {[id |-> id, owner |-> c, from |-> st, delay |-> sp]},
                              held |-> id, stop |-> FALSE]
                     ELSE [timers |-> T1, held |-> 0, stop |-> TRUE]
              ELSE [timers |-> T1, held |-> 0, stop |-> FALSE]

\* variant: the callback sets the step it was scheduled from
TimerUpdate_stay(t) == SetTo(t.from)

\* the update a timer callback dispatches:
\*   GraphAnimation: setStep(step + 1) with the step of the scheduling render
\*   CompareMST:     setStep(s => s + 1)
TimerUpdate(t) == IF t.owner = "mst" THEN Inc ELSE SetTo(t.from + 1)

\* --------------------------------------------------- render + effects (single)
\* one render of the stand-alone GraphAnimation followed by its effects:
\*   effect 1 (deps [steps, setStep]):  setStep(0); setIsPlaying(false)
\*   effect 2: the timer effect
SoloPass(st, pl, sp, n, T, h, changed, stepsChanged) ==
  LET e == RunTimerEffect("solo", st, pl, n, sp, T, h, changed)
  IN [st |-> IF stepsChanged THEN 0 ELSE st,
      pl |-> IF stepsChanged \/ e.stop THEN FALSE ELSE pl,
      timers |-> e.timers, held |-> e.held]

\* q: the update queue to drain, pl1/sp1/n1: isPlaying, speed and steps.length
\* after the handler, stepsChanged: the steps prop is a new array.
\* The effects' own updates cause one more render; after it nothing changes.
CommitSolo(q, pl1, sp1, n1, stepsChanged) ==
  LET st0 == internalStep["solo"]
      st1 == Reduce(st0, q)
      p1 == SoloPass(st1, pl1, sp1, n1, timers, held["solo"],
                     <<st1, pl1, n1, sp1>> # <<st0, isPlaying["solo"], steps["solo"], speed["solo"]>>,
                     stepsChanged)
      p2 == SoloPass(p1.st, p1.pl, sp1, n1, p1.timers, p1.held,
                     <<p1.st, p1.pl>> # <<st1, pl1>>, FALSE)
  IN [idx |-> p2.st,
      playing |-> [c \in Comp |-> IF c = "solo" THEN p2.pl ELSE FALSE],
      timers |-> p2.timers,
      held |-> [c \in Comp |-> IF c = "solo" THEN p2.held ELSE 0]]

\* ----------------------------------------------- render + effects (CompareMST)
\* one render of CompareMST and its two GraphAnimation children, followed by
\* the effects in commit order (children first, then the parent):
\*   child:  effect 1 (deps [steps, setStep]): onStepChange(0); setIsPlaying(false)
\*           effect 2: the timer effect on (externalStep, isPlaying, steps.length, speed)
\*   parent: useEffect(() => resetAnimation(), [data, resetAnimation])
\*           the timer effect on (step, isPlaying, maxSteps, speed)
\* st: step, pl/sp: [Comp -> ...] of this render, lens: the steps lengths,
\* T: pending timers, H: the held handles, ch: [Comp -> dependency changed],
\* dataChanged: the data prop (and with it both steps arrays) is new.
MstPass(st, pl, sp, lens, T, H, ch, dataChanged) ==
  LET eP == RunTimerEffect("prims", ExternalStepOf(st, lens["prims"]), pl["prims"],
                           lens["prims"], sp["prims"], T, H["prims"], ch["prims"])
      eK == RunTimerEffect("kruskals", ExternalStepOf(st, lens["kruskals"]), pl["kruskals"],
                           lens["kruskals"], sp["kruskals"], eP.timers, H["kruskals"], ch["kruskals"])
      eM == RunTimerEffect("mst", st, pl["mst"], MaxStepsOf(lens), sp["mst"],
                           eK.timers, H["mst"], ch["mst"])
      stopped == [c \in Comp |-> CASE c = "prims" -> eP.stop
                                   [] c = "kruskals" -> eK.stop
                                   [] c = "mst" -> eM.stop
                                   [] OTHER -> FALSE]
  IN [st |-> IF dataChanged THEN 0 ELSE st,
      pl |-> [c \in Comp |-> IF c = "solo" \/ dataChanged \/ stopped[c] THEN FALSE ELSE pl[c]],
      timers |-> eM.timers,
      held |-> [c \in Comp |-> CASE c = "prims" -> eP.held
                                 [] c = "kruskals" -> eK.held
                                 [] c = "mst" -> eM.held
                                 [] OTHER -> 0]]

\* variant: isPlaying is missing from the dependency arrays
MstDeps_noPlaying(st, pl, sp, lens) ==
  [c \in Comp |-> CASE c \in Children -> <<ExternalStepOf(st, lens[c]), lens[c], sp[c]>>
                    [] c = "mst" -> <<st, MaxStepsOf(lens), sp[c]>>
                    [] OTHER -> <<0, 0, 0>>]

\* the dependencies of each component's timer effect in a render
MstDeps(st, pl, sp, lens) ==
  [c \in Comp |-> CASE c \in Children -> <<ExternalStepOf(st, lens[c]), pl[c], lens[c], sp[c]>>
                    [] c = "mst" -> <<st, pl[c], MaxStepsOf(lens), sp[c]>>
                    [] OTHER -> <<0, FALSE, 0, 0>>]

CommitMst(q, pl1, sp1, lens1, dataChanged) ==
  LET st1 == Reduce(step, q)
      d0 == MstDeps(step, isPlaying, speed, steps)
      d1 == MstDeps(st1, pl1, sp1, lens1)
      p1 == MstPass(st1, pl1, sp1, lens1, timers, held,
                    [c \in Comp |-> d1[c] # d0[c]], dataChanged)
      d2 == MstDeps(p1.st, p1.pl, sp1, lens1)
      p2 == MstPass(p1.st, p1.pl, sp1, lens1, p1.timers, p1.held,
                    [c \in Comp |-> d2[c] # d1[c]], FALSE)
  IN [idx |-> p2.st, playing |-> p2.pl, timers |-> p2.timers, held |-> p2.held]

\* variant: the reset effects do not depend on the steps / data prop
Commit_noReset(q, pl1, sp1, lens1, propsChanged) ==
  IF view = "single"
    THEN CommitSolo(q, pl1["solo"], sp1["solo"], lens1["solo"], FALSE)
    ELSE CommitMst(q, pl1, sp1, lens1, FALSE)

\* the render of whatever is mounted
Commit(q, pl1, sp1, lens1, propsChanged) ==
  IF view = "single"
    THEN CommitSolo(q, pl1["solo"], sp1["solo"], lens1["solo"], propsChanged)
    ELSE CommitMst(q, pl1, sp1, lens1, propsChanged)

\* the state after a render r of the mounted view with speeds sp1 and lengths lens1
Install(r, sp1, lens1) ==
  /\ view' = view
  /\ steps' = lens1
  /\ internalStep' = [internalStep EXCEPT !["solo"] = IF view = "single" THEN r.idx ELSE 0]
  /\ step' = IF view = "mst" THEN r.idx ELSE 0
  /\ isPlaying' = r.playing
  /\ speed' = sp1
  /\ queue' = <<>>
  /\ timers' = r.timers
  /\ held' = r.held
  /\ gen' = gen /\ main' = main
  /\ rendered' = [g \in GA |->
        IF ~Mounted(g) THEN 0
        ELSE CurrentStepIndex(IF view = "mst" THEN ExternalStepOf(r.idx, lens1[g]) ELSE r.idx,
                              lens1[g])]

\* history variable: the operation, the component, the index and play state before it
Note(op, c) == last' = [op |-> op, c |-> c, from |-> Index, was |-> isPlaying[Root],
                        inflight |-> Len(queue)]

\* -------------------------------------------------------------------- Init
\* MainContent has mounted a stand-alone GraphAnimation over a fresh trace:
\* useState(0), useState(false), useState(1500)
InitialSteps(v, n, lp, lk) ==
  [g \in GA |-> IF v = "single" THEN (IF g = "solo" THEN n ELSE 0)
                ELSE (CASE g = "prims" -> lp [] g = "kruskals" -> lk [] OTHER -> 0)]

Init ==
  /\ view = "single"
  /\ \E n \in 1..MaxLen : steps = InitialSteps("single", n, 0, 0)
  /\ internalStep = [g \in GA |-> 0]
  /\ step = 0
  /\ isPlaying = [c \in Comp |-> FALSE]
  /\ speed = [c \in Comp |-> DefaultSpeed]
  /\ queue = <<>>
  /\ timers = {}
  /\ held = [c \in Comp |-> 0]
  /\ rendered = [g \in GA |-> 0]
  /\ last = [op |-> "mount", c |-> "solo", from |-> 0, was |-> FALSE, inflight |-> 0]
  /\ gen = NoGen
  /\ main = MainHome

\* ----------------------------------------------------------------- actions
\* a discrete event handler of component c: it dispatches the updates ups to
\* the step state, leaves isPlaying/speed as pl1/sp1, and React renders
Handler(op, c, ups, pl1, sp1) ==
  /\ Install(Commit(queue \o ups, pl1, sp1, steps, FALSE), sp1, steps)
  /\ Note(op, c)

\* GraphAnimation: onClick={() => setIsPlaying(!isPlaying)} while not playing
Play(g) ==
  /\ Mounted(g) /\ ControlsShown(g)
  /\ ~isPlaying[g]
  /\ Handler("play", g, <<>>, [isPlaying EXCEPT ![g] = TRUE], speed)

\* GraphAnimation: onClick={() => setIsPlaying(!isPlaying)} while playing
Pause(g) ==
  /\ Mounted(g) /\ ControlsShown(g)
  /\ isPlaying[g]
  /\ Handler("pause", g, <<>>, [isPlaying EXCEPT ![g] = FALSE], speed)

\* variant: GraphAnimation.handleNext written like CompareMST's, with the
\* updater s => s + 1 behind the test of the rendered step
handleNext_updater(g) ==
  /\ Mounted(g) /\ ControlsShown(g)
  /\ gaStep(g) # steps[g] - 1
  /\ Handler("next", g, IF gaStep(g) < steps[g] - 1 THEN <<Inc>> ELSE <<>>,
             [isPlaying EXCEPT ![g] = FALSE], speed)

\* GraphAnimation.handleNext, behind <button disabled={step === steps.length - 1}>
handleNext(g) ==
  /\ Mounted(g) /\ ControlsShown(g)
  /\ gaStep(g) # steps[g] - 1
  /\ Handler("next", g,
             IF gaStep(g) < steps[g] - 1 THEN <<SetTo(gaStep(g) + 1)>> ELSE <<>>,
             [isPlaying EXCEPT ![g] = FALSE], speed)

\* GraphAnimation.handlePrev, behind <button disabled={step === 0}>
handlePrev(g) ==
  /\ Mounted(g) /\ ControlsShown(g)
  /\ gaStep(g) # 0
  /\ Handler("prev", g,
             IF gaStep(g) > 0 THEN <<SetTo(gaStep(g) - 1)>> ELSE <<>>,
             [isPlaying EXCEPT ![g] = FALSE], speed)

\* GraphAnimation.resetAnimation
resetAnimation(g) ==
  /\ Mounted(g) /\ ControlsShown(g)
  /\ Handler("reset", g, <<SetTo(0)>>, [isPlaying EXCEPT ![g] = FALSE], speed)

\* variant: a speed change also restarts the animation
SetSpeed_restart(g, v) ==
  /\ Mounted(g) /\ ControlsShown(g)
  /\ Handler("speed", g, <<SetTo(0)>>, [isPlaying EXCEPT ![g] = FALSE],
             [speed EXCEPT ![g] = SpeedOfSlider(v)])

\* GraphAnimation: onChange={(e) => setSpeed(3200 - Number(e.target.value))}
SetSpeed(g, v) ==
  /\ Mounted(g) /\ ControlsShown(g)
  /\ Handler("speed", g, <<>>, isPlaying, [speed EXCEPT ![g] = SpeedOfSlider(v)])

\* CompareMST: onClick={() => setIsPlaying(!isPlaying)} while not playing
MstPlay ==
  /\ view = "mst"
  /\ ~isPlaying["mst"]
  /\ Handler("play", "mst", <<>>, [isPlaying EXCEPT !["mst"] = TRUE], speed)

\* CompareMST: onClick={() => setIsPlaying(!isPlaying)} while playing
MstPause ==
  /\ view = "mst"
  /\ isPlaying["mst"]
  /\ Handler("pause", "mst", <<>>, [isPlaying EXCEPT !["mst"] = FALSE], speed)

\* CompareMST.handleNext, behind <button disabled={step === maxSteps - 1}>:
\* the test reads the step of the last render, the update is s => s + 1
MstHandleNext ==
  /\ view = "mst"
  /\ step # maxSteps - 1
  /\ Handler("next", "mst", IF step < maxSteps - 1 THEN <<Inc>> ELSE <<>>,
             [isPlaying EXCEPT !["mst"] = FALSE], speed)

\* CompareMST.handlePrev, behind <button disabled={step === 0}>
MstHandlePrev ==
  /\ view = "mst"
  /\ step # 0
  /\ Handler("prev", "mst", IF step > 0 THEN <<Dec>> ELSE <<>>,
             [isPlaying EXCEPT !["mst"] = FALSE], speed)

\* CompareMST.resetAnimation
MstResetAnimation ==
  /\ view = "mst"
  /\ Handler("reset", "mst", <<SetTo(0)>>, [isPlaying EXCEPT !["mst"] = FALSE], speed)

\* CompareMST: onChange={(e) => setSpeed(3200 - Number(e.target.value))}
MstSetSpeed(v) ==
  /\ view = "mst"
  /\ Handler("speed", "mst", <<>>, isPlaying, [speed EXCEPT !["mst"] = SpeedOfSlider(v)])

\* a pending timeout expires: its callback dispatches the update, nothing else
TimerFire(c) ==
  \E t \in timers :
    /\ t.owner = c
    /\ timers' = timers \ {t}
    /\ queue' = Append(queue, TimerUpdate(t))
    /\ Note("fire", c)
    /\ UNCHANGED <<view, steps, internalStep, step, isPlaying, speed, held, rendered, gen, main>>

\* React renders the updates a timer callback dispatched
Flush ==
  /\ queue # <<>>
  /\ Handler("flush", Root, <<>>, isPlaying, speed)

\* the stand-alone GraphAnimation receives a new steps array of length n
StepsChange(n) ==
  /\ view = "single"
  /\ LET lens1 == [steps EXCEPT !["solo"] = n]
     IN Install(Commit(queue, isPlaying, speed, lens1, TRUE), speed, lens1)
  /\ Note("trace", "solo")

\* CompareMST receives a new data object with traces of lengths lp and lk
DataChange(lp, lk) ==
  /\ view = "mst"
  /\ LET lens1 == [steps EXCEPT !["prims"] = lp, !["kruskals"] = lk]
     IN Install(Commit(queue, isPlaying, speed, lens1, TRUE), speed, lens1)
  /\ Note("trace", "mst")

\* MainContent.renderAnimation with another topic: key={topic.name} unmounts the
\* old component (its effect cleanups clear the timers) and mounts a new one
SelectTopic(v, n, lp, lk) ==
  /\ view' = v
  /\ steps' = InitialSteps(v, n, lp, lk)
  /\ internalStep' = [g \in GA |-> 0]
  /\ step' = 0
  /\ isPlaying' = [c \in Comp |-> FALSE]
  /\ speed' = [c \in Comp |-> DefaultSpeed]
  /\ queue' = <<>>
  /\ timers' = {}
  /\ held' = [c \in Comp |-> 0]
  /\ rendered' = [g \in GA |-> 0]
  /\ gen' = gen /\ main' = main
  /\ Note("mount", IF v = "single" THEN "solo" ELSE "mst")

Next ==
  \/ \E g \in GA : Play(g)
  \/ \E g \in GA : Pause(g)
  \/ \E g \in GA : handleNext(g)
  \/ \E g \in GA : handlePrev(g)
  \/ \E g \in GA : resetAnimation(g)
  \/ \E g \in GA, v \in SliderValues : SetSpeed(g, v)
  \/ MstPlay
  \/ MstPause
  \/ MstHandleNext
  \/ MstHandlePrev
  \/ MstResetAnimation
  \/ \E v \in SliderValues : MstSetSpeed(v)
  \/ \E c \in Comp : TimerFire(c)
  \/ Flush
  \/ \E n \in 1..MaxLen : StepsChange(n)
  \/ \E lp \in 1..MaxLen, lk \in 1..MaxLen : DataChange(lp, lk)
  \/ \E n \in 1..MaxLen : SelectTopic("single", n, 0, 0)
  \/ \E lp \in 1..MaxLen, lk \in 1..MaxLen : SelectTopic("mst", 0, lp, lk)

Spec == Init /\ [][Next]_vars

\* playback left to itself: the user acts only while nothing is playing and no
\* timeout or update is pending, so that a run started by play goes on with no
\* further input.  The browser runs the callback of a pending timeout and React
\* renders a dispatched update: weak fairness on TimerFire and on Flush.
SpecAutoAdvance ==
  /\ Init
  /\ [][\/ /\ ~isPlaying[Root] /\ queue = <<>> /\ timers = {}
            /\ \/ \E g \in GA : Play(g)
               \/ \E g \in GA : handleNext(g)
               \/ \E g \in GA : handlePrev(g)
               \/ \E g \in GA : resetAnimation(g)
               \/ \E g \in GA, v \in SliderValues : SetSpeed(g, v)
               \/ MstPlay
               \/ MstHandleNext
               \/ MstHandlePrev
               \/ MstResetAnimation
               \/ \E v \in SliderValues : MstSetSpeed(v)
               \/ \E n \in 1..MaxLen : SelectTopic("single", n, 0, 0)
               \/ \E lp \in 1..MaxLen, lk \in 1..MaxLen : SelectTopic("mst", 0, lp, lk)
        \/ \E c \in Comp : TimerFire(c)
        \/ Flush]_vars
  /\ WF_vars(\E c \in Comp : TimerFire(c))
  /\ WF_vars(Flush)

\* ======================================================= trace generators
\* A generateSteps call runs to completion before its trace is handed to a
\* component; while it runs the playback state is that of a freshly mounted
\* stand-alone GraphAnimation and does not move.
PlaybackIdle ==
  /\ view = "single"
  /\ steps = InitialSteps("single", 1, 0, 0)
  /\ internalStep = [g \in GA |-> 0]
  /\ step = 0
  /\ isPlaying = [c \in Comp |-> FALSE]
  /\ speed = [c \in Comp |-> DefaultSpeed]
  /\ queue = <<>>
  /\ timers = {}
  /\ held = [c \in Comp |-> 0]
  /\ rendered = [g \in GA |-> 0]
  /\ last = [op |-> "mount", c |-> "solo", from |-> 0, was |-> FALSE, inflight |-> 0]

\* the elements of a sequence
Range(q) == { q[i] : i \in DOMAIN q }

\* input graphs: the graph of a module, and that graph with the weight of some
\* of its edges replaced by w
Reweighted(graph, w) ==
  { [graph EXCEPT !.edges = [k \in DOMAIN graph.edges |->
                               IF k \in changed THEN [graph.edges[k] EXCEPT !.weight = w]
                               ELSE graph.edges[k]]] :
      changed \in SUBSET DOMAIN graph.edges }

\* ------------------------------------------------------ Karger's min cut
\* the eight weighted edges of the Karger module's graphData (nodes A to E)
KargerEdges ==
  << [from |-> "A", to |-> "B", weight |-> 1], [from |-> "A", to |-> "C", weight |-> 3],
     [from |-> "A", to |-> "E", weight |-> 2], [from |-> "B", to |-> "D", weight |-> 2],
     [from |-> "B", to |-> "E", weight |-> 4], [from |-> "C", to |-> "D", weight |-> 1],
     [from |-> "C", to |-> "E", weight |-> 5], [from |-> "D", to |-> "E", weight |-> 3] >>

NoEdge == [from |-> "", to |-> "", weight |-> 0]

\* What a consumer reads from a Step under the heap (obj: the edge objects,
\* arr: the supernode arrays).  nodes and edges were copied with
\* JSON.parse(JSON.stringify(..)); highlightedEdge is the edge object itself
\* and { ...supernodes } copies the references to the member arrays.
KargerStepValue(st, obj, arr) ==
  [description |-> st.description,
   highlightedEdge |-> IF st.highlightedEdge = 0 THEN NoEdge ELSE obj[st.highlightedEdge],
   nodes |-> st.nodes,
   edges |-> st.edges,
   supernodes |-> [r \in DOMAIN st.supernodes |-> arr[st.supernodes[r]]],
   dataStructure |-> st.dataStructure]

\* createStep(desc, highlightedEdge): e is the edge object's identity, 0 for none.
\* asAppended records what the Step showed at the moment it was pushed.
KargerCreateStep(g, desc, e) ==
  LET st == [description |-> desc,
             highlightedEdge |-> e,
             nodes |-> g.nodes,
             edges |-> [i \in DOMAIN g.edges |-> g.obj[g.edges[i]]],
             supernodes |-> g.supernodes,
             dataStructure |-> Len(g.nodes)]
  IN [g EXCEPT !.steps = Append(g.steps,
        [ref |-> st, asAppended |-> KargerStepValue(st, g.obj, g.arr)])]

\* locals after the deep copies and createStep("Start with the original ...")
KargerStart ==
  LET nodes == <<"A", "B", "C", "D", "E">>
  IN KargerCreateStep(
      [alg |-> "karger", pc |-> "loop",
       nodes |-> nodes,
       edges |-> [i \in DOMAIN KargerEdges |-> i],
       obj |-> KargerEdges,
       supernodes |-> [n \in Range(nodes) |-> n],
       arr |-> [n \in Range(nodes) |-> <<n>>],
       edgeToContract |-> 0,
       contractions |-> 0,
       steps |-> <<>>],
      "start", 0)

KargerRunning_toOne(g) == Len(g.nodes) > 1 /\ Len(g.edges) > 0

\* the loop condition: nodes.length > 2 && edges.length > 0
KargerRunning(g) == Len(g.nodes) > 2 /\ Len(g.edges) > 0

\* one turn of the while loop begins: pick edges[floor(random * length)] and
\* createStep("Randomly select edge ...", edgeToContract)
KargerSelect ==
  /\ gen.alg = "karger" /\ gen.pc = "loop"
  /\ KargerRunning(gen)
  /\ \E edgeIndex \in 1..Len(gen.edges) :
       gen' = [KargerCreateStep([gen EXCEPT !.edgeToContract = gen.edges[edgeIndex]],
                                "select", gen.edges[edgeIndex])
                 EXCEPT !.pc = "contract"]
  /\ UNCHANGED <<playback, main>>

\* merge v into u: drop v from nodes, push v's members onto u's array, delete
\* supernodes[v], redirect every edge end v to u in place, drop the self-loops,
\* createStep("Merge v into u ...", edgeToContract)
KargerContract ==
  /\ gen.alg = "karger" /\ gen.pc = "contract"
  /\ LET u == gen.obj[gen.edgeToContract].from
         v == gen.obj[gen.edgeToContract].to
         keepNode(n) == n # v
         nodes1 == SelectSeq(gen.nodes, keepNode)
         arr1 == [gen.arr EXCEPT ![gen.supernodes[u]] = @ \o gen.arr[gen.supernodes[v]]]
         super1 == [r \in DOMAIN gen.supernodes \ {v} |-> gen.supernodes[r]]
         obj1 == [i \in DOMAIN gen.obj |->
                    IF i \in Range(gen.edges)
                      THEN [gen.obj[i] EXCEPT !.from = IF @ = v THEN u ELSE @,
                                              !.to = IF @ = v THEN u ELSE @]
                      ELSE gen.obj[i]]
         keepEdge(i) == obj1[i].from # obj1[i].to
         edges1 == SelectSeq(gen.edges, keepEdge)
     IN gen' = [KargerCreateStep([gen EXCEPT !.nodes = nodes1, !.arr = arr1,
                                             !.supernodes = super1, !.obj = obj1,
                                             !.edges = edges1,
                                             !.contractions = @ + 1],
                                 "merge", gen.edgeToContract)
                  EXCEPT !.pc = "loop"]
  /\ UNCHANGED <<playback, main>>

\* the loop is over: createStep("Contraction complete ...", edges[0] || null); return steps
KargerFinish ==
  /\ gen.alg = "karger" /\ gen.pc = "loop"
  /\ ~KargerRunning(gen)
  /\ gen' = [KargerCreateStep(gen, "complete",
                              IF Len(gen.edges) > 0 THEN gen.edges[1] ELSE 0)
               EXCEPT !.pc = "done"]
  /\ UNCHANGED <<playback, main>>


\* ------------------------------------------------------- Rotten tomatoes
MaxCalls == 2          \* generateSteps calls made one after the other

\* const grid = [[2,1,1,0,1], ...]: 0 empty, 1 fresh, 2 rotten (module level;
\* rows and columns count from 1 here)
RottenGrid == << <<2, 1, 1, 0, 1>>, <<1, 1, 0, 1, 1>>, <<0, 1, 1, 1, 0>>, <<1, 0, 1, 2, 1>> >>

\* createStep(desc, currentNode, time): cellColors is copied with { ...cellColors }
RottenCreateStep(g, desc, currentNode, time) ==
  [g EXCEPT !.steps = Append(g.steps,
     [description |-> desc, currentNode |-> currentNode,
      cellColors |-> g.cellColors, dataStructure |-> time])]

\* the start of a call on the module-level grid: count the fresh oranges, queue
\* the rotten ones row by row, colour the cells, createStep("Start. ...", null, 0)
RottenBegin(grid, traces) ==
  LET rows == Len(grid)
      cols == Len(grid[1])
      cellOrder == [k \in 1..(rows * cols) |-> <<((k - 1) \div cols) + 1, ((k - 1) % cols) + 1>>]
      isRotten(cell) == grid[cell[1]][cell[2]] = 2
      rotten == SelectSeq(cellOrder, isRotten)
  IN RottenCreateStep(
       [alg |-> "rotten", pc |-> "bfs",
        grid |-> grid,
        traces |-> traces,
        freshOranges |-> Cardinality({ cell \in Range(cellOrder) : grid[cell[1]][cell[2]] = 1 }),
        queue |-> [k \in DOMAIN rotten |-> <<rotten[k][1], rotten[k][2], 0>>],
        cellColors |-> [cell \in Range(cellOrder) |->
                          CASE grid[cell[1]][cell[2]] = 2 -> "ROTTEN"
                            [] grid[cell[1]][cell[2]] = 1 -> "FRESH"
                            [] OTHER -> "EMPTY"],
        time |-> 0, head |-> 1, dir |-> 1,
        steps |-> <<>>],
       <<"start">>, <<>>, 0)

\* one pass of for (const [dr, dc] of directions) for the entry queue[head]:
\* a fresh neighbour inside the grid is marked rotten in the module-level grid,
\* queued with t + 1 and shown in a new Step
RottenSpread ==
  /\ gen.alg = "rotten" /\ gen.pc = "bfs"
  /\ gen.head <= Len(gen.queue)
  /\ LET directions == << <<-1, 0>>, <<1, 0>>, <<0, -1>>, <<0, 1>> >>
         r == gen.queue[gen.head][1]
         c == gen.queue[gen.head][2]
         t == gen.queue[gen.head][3]
         nr == r + directions[gen.dir][1]
         nc == c + directions[gen.dir][2]
         g1 == [gen EXCEPT !.time = t,
                           !.dir = IF gen.dir = Len(directions) THEN 1 ELSE gen.dir + 1,
                           !.head = IF gen.dir = Len(directions) THEN gen.head + 1 ELSE gen.head]
     IN gen' = IF /\ nr >= 1 /\ nr <= Len(gen.grid) /\ nc >= 1 /\ nc <= Len(gen.grid[1])
                  /\ gen.grid[nr][nc] = 1
                 THEN RottenCreateStep(
                        [g1 EXCEPT !.grid[nr][nc] = 2,
                                   !.freshOranges = @ - 1,
                                   !.queue = Append(@, <<nr, nc, t + 1>>),
                                   !.cellColors[<<nr, nc>>] = "ROTTEN"],
                        <<"rots", r, c, nr, nc>>, <<nr, nc>>, t + 1)
                 ELSE g1
  /\ UNCHANGED <<playback, main>>

\* the queue is exhausted: the closing Step, return steps
RottenReturn ==
  /\ gen.alg = "rotten" /\ gen.pc = "bfs"
  /\ gen.head > Len(gen.queue)
  /\ LET g1 == RottenCreateStep(gen,
                 IF gen.freshOranges > 0 THEN <<"left", gen.freshOranges>>
                                         ELSE <<"all", gen.time>>,
                 <<>>, gen.time)
     IN gen' = [g1 EXCEPT !.pc = "returned", !.traces = Append(@, g1.steps)]
  /\ UNCHANGED <<playback, main>>

\* the topic is opened again: generateSteps() runs once more in the same process
RottenCallAgain ==
  /\ gen.alg = "rotten" /\ gen.pc = "returned"
  /\ Len(gen.traces) < MaxCalls
  /\ gen' = RottenBegin(gen.grid, gen.traces)
  /\ UNCHANGED <<playback, main>>

\* ------------------------------------------- Depth-first search, push-relabel
MaxTrace == 24         \* cap on the length of a trace under construction

Reverse(q) == [i \in 1..Len(q) |-> q[Len(q) + 1 - i]]

DfsVisited_never(g, n) == FALSE

\* visited.has(n)
DfsVisited(g, n) == n \in g.visited

DfsStep(stack, visited, currentNode, neighbor, desc) ==
  [dataStructure |-> Reverse(stack), visited |-> visited,
   currentNode |-> currentNode, neighbor |-> neighbor, description |-> desc]

\* const stack = [startNode]; visited = new Set(); the opening Step
DfsStart(graph, startNode) ==
  [alg |-> "dfs", pc |-> "loop", graph |-> graph,
   stack |-> <<startNode>>, visited |-> {},
   steps |-> <<DfsStep(<<startNode>>, {}, "", "", "start")>>]

\* one turn of while (stack.length > 0): stack.pop(); a node already visited is
\* skipped (continue); a new node is marked and every unvisited neighbour is
\* pushed (in reverse order), one Step for the pop and one per push
DfsPop ==
  /\ gen.alg = "dfs" /\ gen.pc = "loop"
  /\ Len(gen.stack) > 0 /\ Len(gen.steps) < MaxTrace
  /\ LET currentNode == gen.stack[Len(gen.stack)]
         rest == SubSeq(gen.stack, 1, Len(gen.stack) - 1)
         g1 == [gen EXCEPT !.visited = @ \cup {currentNode}]
         fresh(n) == ~DfsVisited(g1, n)
         pushes == SelectSeq(Reverse(gen.graph[currentNode]), fresh)
     IN gen' = IF DfsVisited(gen, currentNode)
                 THEN [gen EXCEPT !.stack = rest]
                 ELSE [g1 EXCEPT
                         !.stack = rest \o pushes,
                         !.steps = @ \o <<DfsStep(rest, g1.visited, currentNode, "", "pop")>>
                                     \o [k \in 1..Len(pushes) |->
                                           DfsStep(rest \o SubSeq(pushes, 1, k), g1.visited,
                                                   currentNode, pushes[k], "push")]]
  /\ UNCHANGED <<playback, main>>

\* the stack is empty: the closing Step, return steps
DfsFinish ==
  /\ gen.alg = "dfs" /\ gen.pc = "loop"
  /\ Len(gen.stack) = 0
  /\ gen' = [gen EXCEPT !.pc = "done",
                        !.steps = Append(@, DfsStep(<<>>, gen.visited, "", "", "complete"))]
  /\ UNCHANGED <<playback, main>>

\* push-relabel: the sample network of the module, and the same network with
\* the edge A->B added (so that A and B lie on a cycle)
PrGraphs ==
  LET nodes == <<"S", "A", "B", "T">>
      adj == [n \in Range(nodes) |->
                CASE n = "S" -> <<"A", "B">> [] n = "A" -> <<"T">>
                  [] n = "B" -> <<"A", "T">> [] OTHER -> <<>>]
      edges == << [from |-> "S", to |-> "A", weight |-> 15], [from |-> "S", to |-> "B", weight |-> 8],
                  [from |-> "A", to |-> "T", weight |-> 10], [from |-> "B", to |-> "A", weight |-> 4],
                  [from |-> "B", to |-> "T", weight |-> 10] >>
  IN { [nodes |-> nodes, adj |-> adj, edges |-> edges],
       [nodes |-> nodes, adj |-> [adj EXCEPT !["A"] = <<"T", "B">>],
        edges |-> Append(edges, [from |-> "A", to |-> "B", weight |-> 3])] }

\* (capacities[getDirectedEdgeKey(u, v)] || 0) - flows[key]
PrResidual(g, u, v) ==
  LET hits == { i \in DOMAIN g.graph.edges :
                  g.graph.edges[i].from = u /\ g.graph.edges[i].to = v }
      capacity == IF hits = {} THEN 0
                  ELSE g.graph.edges[CHOOSE i \in hits : \A j \in hits : j <= i].weight
  IN capacity - g.flows[<<u, v>>]

\* nodes.filter(n => n !== startNode && n !== endNode && excess[n] > 0)
PrActive(g) == LET isActive(n) == n # "S" /\ n # "T" /\ g.excess[n] > 0
               IN SelectSeq(g.graph.nodes, isActive)

\* new Set([...adj[u], ...Object.keys(adj).filter(n => adj[n].includes(u))])
PrNeighbors(g, u) ==
  LET pointsAtU(n) == u \in Range(g.graph.adj[n])
      notOut(n) == n \notin Range(g.graph.adj[u])
  IN g.graph.adj[u] \o SelectSeq(SelectSeq(g.graph.nodes, pointsAtU), notOut)

PrCreateStep(g, desc, current, neighbor) ==
  [g EXCEPT !.steps = Append(@,
     [description |-> desc, currentNode |-> current, neighbor |-> neighbor,
      flows |-> g.flows, nodeHeights |-> g.heights, excessFlows |-> g.excess,
      dataStructure |-> PrActive(g)])]

\* heights, excess and flows set up, the opening Step, every edge out of the
\* source saturated, the second Step, the first activeNodes
PrStart(graph) ==
  LET RECURSIVE saturate(_, _)
      saturate(g, k) ==
        IF k > Len(g.graph.adj["S"]) THEN g
        ELSE LET v == g.graph.adj["S"][k]
                 capacity == PrResidual(g, "S", v)   \* flows[S->v] is still 0
             IN saturate([g EXCEPT !.flows[<<"S", v>>] = capacity,
                                   !.flows[<<v, "S">>] = 0 - capacity,
                                   !.excess[v] = @ + capacity,
                                   !.excess["S"] = @ - capacity], k + 1)
      g2 == PrCreateStep(
              saturate(
                PrCreateStep(
                  [alg |-> "pushrelabel", pc |-> "loop", graph |-> graph,
                   heights |-> [n \in Range(graph.nodes) |->
                                  IF n = "S" THEN Len(graph.nodes) ELSE 0],
                   excess |-> [n \in Range(graph.nodes) |-> 0],
                   flows |-> [key \in Range(graph.nodes) \X Range(graph.nodes) |-> 0],
                   activeNodes |-> <<>>, k |-> 1, pushed |-> FALSE,
                   relabels |-> 0,
                   steps |-> <<>>],
                  "init", "S", ""),
                1),
              "saturate", "S", "")
  IN [g2 EXCEPT !.activeNodes = PrActive(g2)]

\* the guard of a push from u to v
PrCanPush(g, u, v) == PrResidual(g, u, v) > 0 /\ g.heights[u] = g.heights[v] + 1

\* one pass of for (const v of neighbors) for u = activeNodes[0] and the k-th
\* neighbour: push where the guard allows; break when the excess of u is used up
PrPush ==
  /\ gen.alg = "pushrelabel" /\ gen.pc = "loop"
  /\ Len(gen.activeNodes) > 0 /\ Len(gen.steps) < MaxTrace
  /\ gen.k <= Len(PrNeighbors(gen, gen.activeNodes[1]))
  /\ LET u == gen.activeNodes[1]
         v == PrNeighbors(gen, u)[gen.k]
         pushAmount == Min(gen.excess[u], PrResidual(gen, u, v))
     IN gen' = IF PrCanPush(gen, u, v)
                 THEN PrCreateStep(
                        [gen EXCEPT !.flows[<<u, v>>] = @ + pushAmount,
                                    !.flows[<<v, u>>] = @ - pushAmount,
                                    !.excess[u] = @ - pushAmount,
                                    !.excess[v] = @ + pushAmount,
                                    !.pushed = TRUE,
                                    !.k = IF gen.excess[u] = pushAmount
                                            THEN Len(PrNeighbors(gen, u)) + 1 ELSE @ + 1],
                        <<"push", pushAmount>>, u, v)
                 ELSE [gen EXCEPT !.k = @ + 1]
  /\ UNCHANGED <<playback, main>>

\* the new height of u: one more than the lowest neighbour with residual capacity
PrNewHeight_plusTwo(g, u, low) == low + 2

PrNewHeight(g, u, low) == low + 1

\* the for loop is over: if (!pushed) u is relabelled (when a neighbour with
\* residual capacity exists); activeNodes is computed anew
PrRelabel ==
  /\ gen.alg = "pushrelabel" /\ gen.pc = "loop"
  /\ Len(gen.activeNodes) > 0 /\ Len(gen.steps) < MaxTrace
  /\ gen.k > Len(PrNeighbors(gen, gen.activeNodes[1]))
  /\ LET u == gen.activeNodes[1]
         open == { v \in Range(PrNeighbors(gen, u)) : PrResidual(gen, u, v) > 0 }
         low == CHOOSE h \in { gen.heights[v] : v \in open } :
                  \A v \in open : h <= gen.heights[v]
         g1 == IF gen.pushed \/ open = {} THEN gen
               ELSE PrCreateStep([gen EXCEPT !.heights[u] = PrNewHeight(gen, u, low),
                                             !.relabels = @ + 1],
                                 <<"relabel", PrNewHeight(gen, u, low)>>, u, "")
     IN gen' = [g1 EXCEPT !.activeNodes = PrActive(g1), !.k = 1, !.pushed = FALSE]
  /\ UNCHANGED <<playback, main>>

\* no active node is left: the closing Step, return steps
PrFinish ==
  /\ gen.alg = "pushrelabel" /\ gen.pc = "loop"
  /\ Len(gen.activeNodes) = 0
  /\ gen' = [PrCreateStep(gen, <<"complete", gen.excess["T"]>>, "T", "") EXCEPT !.pc = "done"]
  /\ UNCHANGED <<playback, main>>

\* a generator is called on its input and runs to its return without a pause
\* (depth-first search on every directed graph over three nodes, cycles and
\* self-loops included, adj[n] in node order; push-relabel on PrGraphs)
InitTerminate ==
  /\ PlaybackIdle /\ main = MainHome
  /\ LET nodes == <<"A", "B", "C">>
         adj(f) == [n \in Range(nodes) |->
                      LET isNeighbor(m) == m \in f[n] IN SelectSeq(nodes, isNeighbor)]
     IN gen \in { DfsStart(adj(f), nodes[1]) : f \in [Range(nodes) -> SUBSET Range(nodes)] }
                \cup { PrStart(graph) : graph \in PrGraphs }

SpecTerminate ==
  /\ InitTerminate
  /\ [][DfsPop \/ DfsFinish \/ PrPush \/ PrRelabel \/ PrFinish]_vars
  /\ WF_vars(DfsPop \/ DfsFinish \/ PrPush \/ PrRelabel \/ PrFinish)

\* ------------------------------------------------------------------ Johnson
\* JavaScript values as the generator computes with them: a number, NaN, or a
\* string (a sequence of tokens; the sentinel is the one-token string of the infinity sign)
JsNum(n) == [t |-> "num", n |-> n, s |-> <<>>]
JsNaN == [t |-> "nan", n |-> 0, s |-> <<>>]
JsStr(tokens) == [t |-> "str", n |-> 0, s |-> tokens]
JsInf == JsStr(<<[tok |-> "inf", n |-> 0]>>)

\* Number(a): a string converts only when it spells a number
JsToNumber(a) == CASE a.t = "num" -> a
                   [] a.t = "str" /\ Len(a.s) = 1 /\ a.s[1].tok = "num" -> JsNum(a.s[1].n)
                   [] OTHER -> JsNaN

\* a + b: concatenation of String(a) and String(b) as soon as one side is a string
JsAdd(a, b) ==
  LET toString(x) == CASE x.t = "str" -> x.s
                       [] x.t = "nan" -> <<[tok |-> "NaN", n |-> 0]>>
                       [] OTHER -> <<[tok |-> "num", n |-> x.n]>>
  IN IF a.t = "str" \/ b.t = "str" THEN JsStr(toString(a) \o toString(b))
     ELSE IF a.t = "nan" \/ b.t = "nan" THEN JsNaN
     ELSE JsNum(a.n + b.n)

\* a - b
JsSub(a, b) ==
  IF JsToNumber(a).t = "nan" \/ JsToNumber(b).t = "nan" THEN JsNaN
  ELSE JsNum(JsToNumber(a).n - JsToNumber(b).n)

\* a < b (the generator never compares two strings); false when a side is NaN
JsLess(a, b) ==
  /\ JsToNumber(a).t = "num" /\ JsToNumber(b).t = "num"
  /\ JsToNumber(a).n < JsToNumber(b).n

\* the input graphs: the sample of the module, and the sample with other weights
\* on A->B and B->C
JohnsonGraphs ==
  LET nodes == <<"A", "B", "C", "D">>
      adj == [n \in Range(nodes) |->
                CASE n = "A" -> <<"B">> [] n = "B" -> <<"C", "D">>
                  [] n = "D" -> <<"A", "C">> [] OTHER -> <<>>]
      edges == << [from |-> "A", to |-> "B", weight |-> -2], [from |-> "B", to |-> "C", weight |-> -1],
                  [from |-> "B", to |-> "D", weight |-> 2], [from |-> "D", to |-> "A", weight |-> 3],
                  [from |-> "D", to |-> "C", weight |-> 4] >>
  IN { [nodes |-> nodes, adj |-> adj,
        edges |-> [edges EXCEPT ![1].weight = ab, ![2].weight = bc]] :
         ab \in {-2, 1}, bc \in {-1, 3} }

\* edges.find(e => e.from === u && e.to === v)
JohnsonFind(edges, u, v) ==
  edges[CHOOSE i \in DOMAIN edges :
          /\ edges[i].from = u /\ edges[i].to = v
          /\ \A j \in 1..(i - 1) : ~(edges[j].from = u /\ edges[j].to = v)]

\* the shared test of both relaxations:
\* d[v] === INF || d[u] + edge.weight < d[v]
JohnsonImproves(d, u, v, weight) ==
  d[v] = JsInf \/ JsLess(JsAdd(d[u], weight), d[v])

\* a Step; distances names the object the Step refers to ("h", or "run" and the
\* number of the Dijkstra run), the matrix is stored as given
JohnsonStep(desc, ref, run, matrix) ==
  [description |-> desc, distances |-> ref, run |-> run, distanceMatrix |-> matrix]

\* h[id] = INF for every node, h['S'] = 0, the opening Step
JohnsonStart(graph) ==
  [alg |-> "johnson", pc |-> "bellmanFord",
   nodes |-> graph.nodes, adj |-> graph.adj, edges |-> graph.edges,
   h |-> [n \in Range(graph.nodes) \cup {"S"} |-> IF n = "S" THEN JsNum(0) ELSE JsInf],
   i |-> 0,
   newEdges |-> <<>>,
   allDistances |-> <<>>,
   runs |-> <<>>,
   pq |-> <<>>,
   steps |-> <<JohnsonStep("phase1", "h", 0, <<>>)>>]

\* for (let i = 0; i < V; i++): one round,
\* originalNodes.forEach(u => { if (h[u] !== INF) adj[u].forEach(v => relax) })
JohnsonBellmanFord ==
  /\ gen.alg = "johnson" /\ gen.pc = "bellmanFord"
  /\ gen.i < Len(gen.nodes)
  /\ LET RECURSIVE relaxEdges(_, _, _)
         relaxEdges(h, u, k) ==
           IF k > Len(gen.adj[u]) THEN h
           ELSE LET v == gen.adj[u][k]
                    weight == JsNum(JohnsonFind(gen.edges, u, v).weight)
                IN relaxEdges(IF JohnsonImproves(h, u, v, weight)
                                THEN [h EXCEPT ![v] = JsAdd(h[u], weight)] ELSE h,
                              u, k + 1)
         RECURSIVE round(_, _)
         round(h, n) ==
           IF n > Len(gen.nodes) THEN h
           ELSE round(IF h[gen.nodes[n]] # JsInf THEN relaxEdges(h, gen.nodes[n], 1) ELSE h,
                      n + 1)
     IN gen' = [gen EXCEPT !.h = round(gen.h, 1), !.i = @ + 1]
  /\ UNCHANGED <<playback, main>>

\* the negative-cycle check, then the re-weighting of every edge
JohnsonReweight ==
  /\ gen.alg = "johnson" /\ gen.pc = "bellmanFord"
  /\ gen.i = Len(gen.nodes)
  /\ gen' =
       IF \E k \in DOMAIN gen.edges :
            /\ gen.h[gen.edges[k].from] # JsInf
            /\ JsLess(JsAdd(gen.h[gen.edges[k].from], JsNum(gen.edges[k].weight)),
                      gen.h[gen.edges[k].to])
         THEN [gen EXCEPT !.pc = "done",
                          !.steps = Append(@, JohnsonStep("negativeCycle", "none", 0, <<>>))]
         ELSE [gen EXCEPT
                 !.pc = "dijkstra", !.i = 0,
                 !.newEdges = [k \in DOMAIN gen.edges |->
                                 [from |-> gen.edges[k].from, to |-> gen.edges[k].to,
                                  weight |-> JsSub(JsAdd(JsNum(gen.edges[k].weight),
                                                         gen.h[gen.edges[k].from]),
                                                   gen.h[gen.edges[k].to])]],
                 !.allDistances = [r \in 1..Len(gen.nodes) |->
                                     [c \in 1..Len(gen.nodes) |-> JsInf]],
                 !.steps = @ \o <<JohnsonStep("potentials", "h", 0, <<>>),
                                  JohnsonStep("phase2", "none", 0, <<>>)>>]
  /\ UNCHANGED <<playback, main>>

\* a Dijkstra run begins: distances, the queue, the Step that refers to distances
JohnsonDijkstraStart ==
  /\ gen.alg = "johnson" /\ gen.pc = "dijkstra"
  /\ gen.i < Len(gen.nodes)
  /\ gen' = [gen EXCEPT
               !.pc = "relax",
               !.runs = Append(@, [n \in Range(gen.nodes) |->
                                     IF n = gen.nodes[gen.i + 1] THEN JsNum(0) ELSE JsInf]),
               !.pq = <<[element |-> gen.nodes[gen.i + 1], priority |-> JsNum(0)]>>,
               !.steps = Append(@, JohnsonStep("phase3", "run", gen.i + 1, <<>>))]
  /\ UNCHANGED <<playback, main>>

\* the stable order by priority of the entries of q: each entry goes behind
\* every entry that does not come after it
PqStable(q) ==
  LET insert(sorted, e) ==
        LET k == Cardinality({ i \in DOMAIN sorted : ~JsLess(e.priority, sorted[i].priority) })
        IN SubSeq(sorted, 1, k) \o <<e>> \o SubSeq(sorted, k + 1, Len(sorted))
      RECURSIVE stable(_)
      stable(r) == IF Len(r) = 0 THEN <<>>
                   ELSE insert(stable(SubSeq(r, 1, Len(r) - 1)), r[Len(r)])
  IN stable(q)

\* elements.sort((a, b) => a.priority - b.priority) after the pushes: the stable
\* order by priority; when a difference is NaN the comparator is inconsistent
\* and the engine may leave the entries in any order
PqSorted(q) ==
  IF \E i, j \in DOMAIN q : i # j /\ JsSub(q[i].priority, q[j].priority).t = "nan"
    THEN { [i \in DOMAIN q |-> q[p[i]]] :
             p \in { f \in [DOMAIN q -> DOMAIN q] :
                       \A i, j \in DOMAIN q : f[i] = f[j] => i = j } }
    ELSE { PqStable(q) }

\* pq.dequeue() and the relaxation of every edge out of the dequeued node
\* (acc.d the distances, acc.q the queue entries in the order of their push)
JohnsonDequeue ==
  /\ gen.alg = "johnson" /\ gen.pc = "relax"
  /\ Len(gen.pq) > 0
  /\ LET u == gen.pq[1].element
         run == Len(gen.runs)
         RECURSIVE relax(_, _)
         relax(acc, k) ==
           IF k > Len(gen.adj[u]) THEN acc
           ELSE LET v == gen.adj[u][k]
                    weight == JohnsonFind(gen.newEdges, u, v).weight
                    dv == JsAdd(acc.d[u], weight)
                IN relax(IF JohnsonImproves(acc.d, u, v, weight)
                           THEN [d |-> [acc.d EXCEPT ![v] = dv],
                                 q |-> Append(acc.q, [element |-> v, priority |-> dv])]
                           ELSE acc,
                         k + 1)
         acc == relax([d |-> gen.runs[run], q |-> Tail(gen.pq)], 1)
     IN \E sorted \in PqSorted(acc.q) :
          gen' = [gen EXCEPT !.runs[run] = acc.d, !.pq = sorted]
  /\ UNCHANGED <<playback, main>>

\* the queue is empty: the row of the matrix, a Step with a copy of the matrix
JohnsonConvert ==
  /\ gen.alg = "johnson" /\ gen.pc = "relax"
  /\ Len(gen.pq) = 0
  /\ LET i == gen.i + 1
         distances == gen.runs[i]
         row == [j \in 1..Len(gen.nodes) |->
                   IF distances[gen.nodes[j]] # JsInf
                     THEN JsAdd(JsSub(distances[gen.nodes[j]], gen.h[gen.nodes[i]]),
                                gen.h[gen.nodes[j]])
                     ELSE gen.allDistances[i][j]]
         matrix == [gen.allDistances EXCEPT ![i] = row]
     IN gen' = [gen EXCEPT !.pc = "dijkstra", !.i = i,
                           !.allDistances = matrix,
                           !.steps = Append(@, JohnsonStep("row", "none", 0, matrix))]
  /\ UNCHANGED <<playback, main>>

\* every run is over: the closing Step with the matrix itself
JohnsonFinish ==
  /\ gen.alg = "johnson" /\ gen.pc = "dijkstra"
  /\ gen.i = Len(gen.nodes)
  /\ gen' = [gen EXCEPT !.pc = "done",
                        !.steps = Append(@, JohnsonStep("complete", "none", 0, gen.allDistances))]
  /\ UNCHANGED <<playback, main>>

\* ------------------------------------------------ Ford-Fulkerson, minimum cut
\* the sample network of both modules
FlowSample ==
  [nodes |-> <<"S", "A", "B", "C", "D", "T">>,
   adj |-> [n \in {"S", "A", "B", "C", "D", "T"} |->
              CASE n = "S" -> <<"A", "B">> [] n = "A" -> <<"C", "D">> [] n = "B" -> <<"D">>
                [] n = "C" -> <<"T">> [] n = "D" -> <<"T">> [] OTHER -> <<>>],
   edges |-> << [from |-> "S", to |-> "A", weight |-> 10], [from |-> "S", to |-> "B", weight |-> 10],
                [from |-> "A", to |-> "C", weight |-> 8], [from |-> "A", to |-> "D", weight |-> 4],
                [from |-> "B", to |-> "D", weight |-> 9], [from |-> "C", to |-> "T", weight |-> 10],
                [from |-> "D", to |-> "T", weight |-> 10] >>]

\* the capacity that replaces some capacities of the sample in the input networks
FlowOtherWeight == 5

\* (capacities[key] || 0) - flows[key] on the key u->v
FlowResidual(g, u, v) ==
  LET hits == { i \in DOMAIN g.edges : g.edges[i].from = u /\ g.edges[i].to = v }
      capacity == IF hits = {} THEN 0
                  ELSE g.edges[CHOOSE i \in hits : \A j \in hits : j <= i].weight
  IN capacity - g.flows[<<u, v>>]

\* the neighbours of u in both directions: adj[u], then every n with u in adj[n]
FlowNeighbors(g, u) ==
  LET pointsAtU(n) == u \in Range(g.adj[n])
  IN g.adj[u] \o SelectSeq(g.nodes, pointsAtU)

\* the for loop over the neighbours of u from position k on; b holds queue,
\* visited, parent and found (the sink was reached: break)
RECURSIVE FlowScan(_, _, _, _)
FlowScan(g, b, u, k) ==
  IF k > Len(FlowNeighbors(g, u)) THEN b
  ELSE LET v == FlowNeighbors(g, u)[k]
       IN IF v \notin b.visited /\ FlowResidual(g, u, v) > 0
            THEN LET b1 == [b EXCEPT !.parent[v] = u,
                                     !.visited = @ \cup {v},
                                     !.queue = Append(@, v),
                                     !.found = (v = "T")]
                 IN IF v = "T" THEN b1 ELSE FlowScan(g, b1, u, k + 1)
            ELSE FlowScan(g, b, u, k + 1)

\* the breadth-first search for an augmenting path in the residual graph:
\* while (queue.length > 0 && !found) { const u = queue.shift(); ... }
FlowBfs(g) ==
  LET RECURSIVE search(_)
      search(b) ==
        IF Len(b.queue) = 0 \/ b.found THEN b
        ELSE search(FlowScan(g, [b EXCEPT !.queue = Tail(@)], b.queue[1], 1))
  IN search([queue |-> <<"S">>, visited |-> {"S"},
             parent |-> [n \in Range(g.nodes) |-> ""], found |-> FALSE])

\* the path from S to curr along parent
RECURSIVE FlowPath(_, _)
FlowPath(parent, curr) ==
  IF curr = "S" THEN <<"S">> ELSE Append(FlowPath(parent, parent[curr]), curr)

FlowBottleneck_first(g, path) == FlowResidual(g, path[1], path[2])

\* the least residual capacity along the path
FlowBottleneck(g, path) ==
  LET residuals == { FlowResidual(g, path[i], path[i + 1]) : i \in 1..(Len(path) - 1) }
  IN CHOOSE m \in residuals : \A r \in residuals : m <= r

\* flows[u->v] += bottleneck; flows[v->u] -= bottleneck along the path from
\* position i on
RECURSIVE FlowAugment(_, _, _, _)
FlowAugment(flows, path, bottleneck, i) ==
  IF i > Len(path) - 1 THEN flows
  ELSE FlowAugment([flows EXCEPT ![<<path[i], path[i + 1]>>] = @ + bottleneck,
                                 ![<<path[i + 1], path[i]>>] = @ - bottleneck],
                   path, bottleneck, i + 1)

FfCreateStep(g, desc, path) ==
  [g EXCEPT !.steps = Append(@, [description |-> desc, highlightedPath |-> path,
                                 flows |-> g.flows, dataStructure |-> g.totalFlow])]

\* flows[key] = 0 on every key, totalFlow = 0, the opening Step
FfStart(graph) ==
  FfCreateStep([alg |-> "fordfulkerson", pc |-> "search",
                nodes |-> graph.nodes, adj |-> graph.adj, edges |-> graph.edges,
                flows |-> [key \in Range(graph.nodes) \X Range(graph.nodes) |-> 0],
                totalFlow |-> 0, sSet |-> {}, queue |-> <<>>, cutValue |-> 0,
                steps |-> <<>>], "start", <<>>)

\* one turn of while (true) in which the search finds a path: the "found" Step,
\* the bottleneck and its Step, the augmentation, totalFlow += bottleneck, the
\* "augmented" Step
FfAugment ==
  /\ gen.alg = "fordfulkerson" /\ gen.pc = "search"
  /\ FlowBfs(gen).parent["T"] # ""
  /\ LET path == FlowPath(FlowBfs(gen).parent, "T")
         bottleneck == FlowBottleneck(gen, path)
         g1 == FfCreateStep(FfCreateStep(gen, "found", path), <<"bottleneck", bottleneck>>, path)
     IN gen' = FfCreateStep([g1 EXCEPT !.flows = FlowAugment(@, path, bottleneck, 1),
                                       !.totalFlow = @ + bottleneck],
                            "augmented", path)
  /\ UNCHANGED <<playback, main>>

\* no path is found: the closing Step, return steps
FfFinish ==
  /\ gen.alg = "fordfulkerson" /\ gen.pc = "search"
  /\ FlowBfs(gen).parent["T"] = ""
  /\ gen' = FfCreateStep([gen EXCEPT !.pc = "done"], "maximized", <<>>)
  /\ UNCHANGED <<playback, main>>

\* the minimum-cut generator: the same search, no Step per augmentation
McStart(graph) ==
  [FfStart(graph) EXCEPT
     !.alg = "mincut",
     !.steps = <<[description |-> "phase1", flows |-> <<>>, cutSetS |-> {},
                  dataStructure |-> <<0>>]>>]

\* one turn of while (true) in which a path is found: bottleneck and augmentation
McAugment ==
  /\ gen.alg = "mincut" /\ gen.pc = "search"
  /\ FlowBfs(gen).found
  /\ LET path == FlowPath(FlowBfs(gen).parent, "T")
         bottleneck == FlowBottleneck(gen, path)
     IN gen' = [gen EXCEPT !.flows = FlowAugment(@, path, bottleneck, 1),
                           !.totalFlow = @ + bottleneck]
  /\ UNCHANGED <<playback, main>>

\* no path is found: the "max flow found" Step, the S-set starts as {S}, the
\* "phase 2" Step
McMaxFlow ==
  /\ gen.alg = "mincut" /\ gen.pc = "search"
  /\ ~FlowBfs(gen).found
  /\ gen' = [gen EXCEPT
               !.pc = "reach", !.sSet = {"S"}, !.queue = <<"S">>,
               !.steps = @ \o << [description |-> "maxflow", flows |-> gen.flows,
                                  cutSetS |-> {}, dataStructure |-> <<gen.totalFlow>>],
                                 [description |-> "phase2", flows |-> <<>>,
                                  cutSetS |-> {"S"}, dataStructure |-> <<gen.totalFlow>>] >>]
  /\ UNCHANGED <<playback, main>>

\* queue.shift() and the scan of the neighbours of u for residual capacity
McReach ==
  /\ gen.alg = "mincut" /\ gen.pc = "reach"
  /\ Len(gen.queue) > 0
  /\ LET b == FlowScan(gen, [queue |-> Tail(gen.queue), visited |-> gen.sSet,
                             parent |-> [n \in Range(gen.nodes) |-> ""], found |-> FALSE],
                       gen.queue[1], 1)
     IN gen' = [gen EXCEPT !.sSet = b.visited, !.queue = b.queue]
  /\ UNCHANGED <<playback, main>>

McCrosses_from(edge, sSet) == edge.from \in sSet

\* sSet.has(edge.from) && !sSet.has(edge.to)
McCrosses(edge, sSet) == edge.from \in sSet /\ edge.to \notin sSet

\* the queue is empty: the S-set Step, the cut value (the sum of the weights of
\* the edges from the S-set to the rest), the closing Step
McCut ==
  /\ gen.alg = "mincut" /\ gen.pc = "reach"
  /\ Len(gen.queue) = 0
  /\ LET RECURSIVE sum(_)
         sum(edges) ==
           IF Len(edges) = 0 THEN 0
           ELSE sum(Tail(edges)) + (IF McCrosses(edges[1], gen.sSet) THEN edges[1].weight ELSE 0)
         cutValue == sum(gen.edges)
     IN gen' = [gen EXCEPT
                  !.pc = "done", !.cutValue = cutValue,
                  !.steps = @ \o << [description |-> "sset", flows |-> <<>>,
                                     cutSetS |-> gen.sSet, dataStructure |-> <<gen.totalFlow>>],
                                    [description |-> "cut", flows |-> <<>>,
                                     cutSetS |-> gen.sSet,
                                     dataStructure |-> <<gen.totalFlow, cutValue>>] >>]
  /\ UNCHANGED <<playback, main>>

\* ----------------------------------------------------------------- Dijkstra
\* the sample graph of the module (undirected: adj lists both directions)
DijSample ==
  [nodes |-> <<"A", "B", "C", "D", "E", "F">>,
   adj |-> [n \in {"A", "B", "C", "D", "E", "F"} |->
              CASE n = "A" -> <<"B", "C">> [] n = "B" -> <<"A", "D", "C">>
                [] n = "C" -> <<"A", "B", "E">> [] n = "D" -> <<"B", "F">>
                [] n = "E" -> <<"C", "F">> [] OTHER -> <<"D", "E">>],
   edges |-> << [from |-> "A", to |-> "B", weight |-> 4], [from |-> "A", to |-> "C", weight |-> 2],
                [from |-> "B", to |-> "C", weight |-> 1], [from |-> "B", to |-> "D", weight |-> 5],
                [from |-> "C", to |-> "E", weight |-> 3], [from |-> "D", to |-> "F", weight |-> 3],
                [from |-> "E", to |-> "F", weight |-> 1] >>]

\* the weight that replaces some weights of the sample in the input graphs
DijOtherWeight == 2

\* edges.find(e => (e.from === u && e.to === v) || (e.from === v && e.to === u))
DijFind(edges, u, v) ==
  edges[CHOOSE i \in DOMAIN edges :
          /\ (edges[i].from = u /\ edges[i].to = v) \/ (edges[i].from = v /\ edges[i].to = u)
          /\ \A j \in 1..(i - 1) :
               ~((edges[j].from = u /\ edges[j].to = v) \/ (edges[j].from = v /\ edges[j].to = u))]

\* steps.push({ dataStructure: [...pq.elements], visited: new Set(visited), ...,
\* distances: { ...distances } })
DijPush(g, currentNode, neighbor, desc) ==
  [g EXCEPT !.steps = Append(@,
     [dataStructure |-> g.pq, visited |-> g.visited, currentNode |-> currentNode,
      neighbor |-> neighbor, description |-> desc, distances |-> g.distances])]

DijStart(graph, startNode) ==
  DijPush([alg |-> "dijkstra", pc |-> "loop",
           nodes |-> graph.nodes, adj |-> graph.adj, edges |-> graph.edges,
           distances |-> [n \in Range(graph.nodes) |-> IF n = startNode THEN JsNum(0) ELSE JsInf],
           pq |-> <<[element |-> startNode, priority |-> JsNum(0)]>>,
           visited |-> {},
           steps |-> <<>>], "", "", "init")

DijImproves_first(neighborDist, newDist) == neighborDist = JsInf

\* neighborDist === INF || newDist < neighborDist
DijImproves(neighborDist, newDist) == neighborDist = JsInf \/ JsLess(newDist, neighborDist)

\* the for loop over the neighbours of currentNode from position k on (the
\* priorities are numbers, so enqueue leaves the queue in its stable order)
RECURSIVE DijRelax(_, _, _)
DijRelax(g, currentNode, k) ==
  IF k > Len(g.adj[currentNode]) THEN g
  ELSE LET neighbor == g.adj[currentNode][k]
           newDist == JsAdd(g.distances[currentNode],
                            JsNum(DijFind(g.edges, currentNode, neighbor).weight))
       IN IF neighbor \notin g.visited /\ DijImproves(g.distances[neighbor], newDist)
            THEN DijRelax(
                   DijPush([g EXCEPT !.distances[neighbor] = newDist,
                                     !.pq = PqStable(Append(@, [element |-> neighbor,
                                                                priority |-> newDist]))],
                           currentNode, neighbor, "update"),
                   currentNode, k + 1)
            ELSE DijRelax(g, currentNode, k + 1)

\* one turn of while (!pq.isEmpty()): pq.dequeue(); a node already visited is
\* skipped (continue); a new node is marked, the "extract" Step, its edges relaxed
DijDequeue ==
  /\ gen.alg = "dijkstra" /\ gen.pc = "loop"
  /\ Len(gen.pq) > 0
  /\ LET currentNode == gen.pq[1].element
     IN gen' = IF currentNode \in gen.visited
                 THEN [gen EXCEPT !.pq = Tail(@)]
                 ELSE DijRelax(DijPush([gen EXCEPT !.pq = Tail(@),
                                                   !.visited = @ \cup {currentNode}],
                                       currentNode, "", "extract"),
                               currentNode, 1)
  /\ UNCHANGED <<playback, main>>

\* the queue is empty: the closing Step, return steps
DijFinish ==
  /\ gen.alg = "dijkstra" /\ gen.pc = "loop"
  /\ Len(gen.pq) = 0
  /\ gen' = [DijPush(gen, "", "", "complete") EXCEPT !.pc = "done"]
  /\ UNCHANGED <<playback, main>>

\* ----------------------------------- Breadth-first search, unweighted paths
\* the sample graph of both modules
BfsSample ==
  [nodes |-> <<"A", "B", "C", "D", "E", "F">>,
   adj |-> [n \in {"A", "B", "C", "D", "E", "F"} |->
              CASE n = "A" -> <<"B", "C">> [] n = "B" -> <<"A", "D">>
                [] n = "C" -> <<"A", "E">> [] n = "D" -> <<"B", "F">>
                [] n = "E" -> <<"C", "F">> [] OTHER -> <<"D", "E">>]]

\* the input graphs: the sample, and the sample with some of these chords added
\* (each at the end of both adjacency lists)
BfsGraphs ==
  LET chords == << <<"B", "C">>, <<"A", "F">>, <<"C", "D">>, <<"B", "E">> >>
      RECURSIVE withChords(_, _, _)
      withChords(adj, chosen, k) ==
        IF k > Len(chords) THEN adj
        ELSE withChords(
               IF k \in chosen
                 THEN [adj EXCEPT ![chords[k][1]] = Append(@, chords[k][2]),
                                  ![chords[k][2]] = Append(@, chords[k][1])]
                 ELSE adj,
               chosen, k + 1)
  IN { [BfsSample EXCEPT !.adj = withChords(BfsSample.adj, chosen, 1)] :
         chosen \in SUBSET DOMAIN chords }

\* steps.push({ dataStructure: [...queue], visited: new Set(visited), ... })
BfsPush(g, currentNode, neighbor, desc) ==
  [g EXCEPT !.steps = Append(@,
     [dataStructure |-> g.queue, visited |-> g.visited, currentNode |-> currentNode,
      neighbor |-> neighbor, description |-> desc, distances |-> g.distances])]

\* alg "bfs" is the plain traversal (no distances), alg "unweighted" records the
\* distance of every node it visits
BfsStart(alg, graph, startNode) ==
  BfsPush([alg |-> alg, pc |-> "loop", nodes |-> graph.nodes, adj |-> graph.adj,
           queue |-> <<startNode>>, visited |-> {startNode},
           distances |-> IF alg = "unweighted"
                           THEN [n \in Range(graph.nodes) |->
                                   IF n = startNode THEN JsNum(0) ELSE JsInf]
                           ELSE [n \in Range(graph.nodes) |-> JsInf],
           steps |-> <<>>], "", "", "start")

BfsDequeue_last(q) == [node |-> q[Len(q)], rest |-> SubSeq(q, 1, Len(q) - 1)]

\* queue.shift()
BfsDequeue(q) == [node |-> Head(q), rest |-> Tail(q)]

\* the for loop over the neighbours of currentNode from position k on
RECURSIVE BfsExplore(_, _, _)
BfsExplore(g, currentNode, k) ==
  IF k > Len(g.adj[currentNode]) THEN g
  ELSE LET neighbor == g.adj[currentNode][k]
       IN IF neighbor \notin g.visited
            THEN BfsExplore(
                   BfsPush([g EXCEPT !.visited = @ \cup {neighbor},
                                     !.queue = Append(@, neighbor),
                                     !.distances[neighbor] =
                                        IF g.alg = "unweighted"
                                          THEN JsAdd(g.distances[currentNode], JsNum(1)) ELSE @],
                           currentNode, neighbor, "visit"),
                   currentNode, k + 1)
            ELSE BfsExplore(g, currentNode, k + 1)

\* one turn of the while loop: dequeue, the "dequeue" Step, explore
BfsProcess ==
  /\ gen.alg \in {"bfs", "unweighted"} /\ gen.pc = "loop"
  /\ Len(gen.queue) > 0
  /\ LET currentNode == BfsDequeue(gen.queue).node
     IN gen' = BfsExplore(BfsPush([gen EXCEPT !.queue = BfsDequeue(gen.queue).rest],
                                  currentNode, "", "dequeue"),
                          currentNode, 1)
  /\ UNCHANGED <<playback, main>>

\* the queue is empty: the closing Step, return steps
BfsFinish ==
  /\ gen.alg \in {"bfs", "unweighted"} /\ gen.pc = "loop"
  /\ Len(gen.queue) = 0
  /\ gen' = [BfsPush([gen EXCEPT !.queue = <<>>], "", "", "complete") EXCEPT !.pc = "done"]
  /\ UNCHANGED <<playback, main>>

\* ------------------------------------------------ Prim and Kruskal, compared
\* the comparison graph of the module (undirected: adj lists both directions)
MstSample ==
  [nodes |-> <<"A", "B", "C", "D", "E", "F">>,
   adj |-> [n \in {"A", "B", "C", "D", "E", "F"} |->
              CASE n = "A" -> <<"B", "C">> [] n = "B" -> <<"A", "D", "C">>
                [] n = "C" -> <<"A", "B", "E">> [] n = "D" -> <<"B", "F">>
                [] n = "E" -> <<"C", "F">> [] OTHER -> <<"D", "E">>],
   edges |-> << [from |-> "A", to |-> "B", weight |-> 4], [from |-> "A", to |-> "C", weight |-> 2],
                [from |-> "B", to |-> "C", weight |-> 1], [from |-> "B", to |-> "D", weight |-> 5],
                [from |-> "C", to |-> "E", weight |-> 3], [from |-> "D", to |-> "F", weight |-> 6],
                [from |-> "E", to |-> "F", weight |-> 1] >>]

\* the weight that replaces some weights of the comparison graph in the input graphs
MstOtherWeight == 3

\* getEdgeKey: [edge.from, edge.to].sort().join('-') (the ids are single
\* letters, sorted as in the alphabet)
getEdgeKey(edge) ==
  LET letters == <<"A", "B", "C", "D", "E", "F">>
      index(n) == CHOOSE i \in DOMAIN letters : letters[i] = n
  IN IF index(edge.from) <= index(edge.to) THEN <<edge.from, edge.to>>
     ELSE <<edge.to, edge.from>>

\* DisjointSet.find(i): the root of i
RECURSIVE DsuRoot(_, _)
DsuRoot(parent, i) == IF parent[i] = i THEN i ELSE DsuRoot(parent, parent[i])

\* DisjointSet.find(i) with its path compression: the new parent map, in which
\* every node on the way from i to its root hangs below the root
DsuFind(parent, i) ==
  LET RECURSIVE way(_)
      way(n) == IF parent[n] = n THEN {} ELSE {n} \cup way(parent[n])
  IN [n \in DOMAIN parent |-> IF n \in way(i) THEN DsuRoot(parent, i) ELSE parent[n]]

DsuUnion_nolink(parent, i, j) == DsuFind(DsuFind(parent, i), j)

\* DisjointSet.union(i, j): both are found (and compressed), then the root of j
\* is hung below the root of i
DsuUnion(parent, i, j) ==
  LET p2 == DsuFind(DsuFind(parent, i), j)
  IN IF DsuRoot(parent, i) # DsuRoot(parent, j)
       THEN [p2 EXCEPT ![DsuRoot(parent, j)] = DsuRoot(parent, i)]
       ELSE p2

\* DisjointSet.getSets(): every key is found, so every node ends below its root
DsuGetSets(parent) == [n \in DOMAIN parent |-> DsuRoot(parent, n)]

\* new DisjointSet(elements): this.parent[e] = e; no method was called yet
DsuNew(elements) ==
  [alg |-> "dsu", parent |-> [e \in elements |-> e], before |-> [e \in elements |-> e],
   op |-> "new", a |-> "", b |-> "", result |-> ""]

\* a caller invokes dsu.find(i)
DsuCallFind ==
  /\ gen.alg = "dsu"
  /\ \E i \in DOMAIN gen.parent :
       gen' = [gen EXCEPT !.parent = DsuFind(gen.parent, i), !.before = gen.parent,
                          !.op = "find", !.a = i, !.b = "",
                          !.result = DsuRoot(gen.parent, i)]
  /\ UNCHANGED <<playback, main>>

\* a caller invokes dsu.union(i, j)
DsuCallUnion ==
  /\ gen.alg = "dsu"
  /\ \E i, j \in DOMAIN gen.parent :
       gen' = [gen EXCEPT !.parent = DsuUnion(gen.parent, i, j), !.before = gen.parent,
                          !.op = "union", !.a = i, !.b = j, !.result = ""]
  /\ UNCHANGED <<playback, main>>

\* a caller invokes dsu.getSets(): the returned record is kept in result
DsuCallGetSets ==
  /\ gen.alg = "dsu"
  /\ gen' = [gen EXCEPT !.parent = DsuGetSets(gen.parent), !.before = gen.parent,
                        !.op = "getSets", !.a = "", !.b = "",
                        !.result = DsuGetSets(gen.parent)]
  /\ UNCHANGED <<playback, main>>

\* addEdges(nodeId): for every neighbour, the edge between the two is enqueued
RECURSIVE PrimAddEdges(_, _, _, _)
PrimAddEdges(g, pq, nodeId, k) ==
  IF k > Len(g.adj[nodeId]) THEN pq
  ELSE PrimAddEdges(g,
         PqStable(Append(pq, [element |-> DijFind(g.edges, nodeId, g.adj[nodeId][k]),
                              priority |-> JsNum(DijFind(g.edges, nodeId, g.adj[nodeId][k]).weight)])),
         nodeId, k + 1)

\* a Step of Prim's trace
PrimPush(g, desc, edge) ==
  [g EXCEPT !.prims = Append(@,
     [description |-> desc, highlightedEdge |-> edge, dataStructure |-> g.pq,
      visited |-> g.visited, mstEdges |-> g.mstEdges])]

\* Prim's generator is called first: the opening Step, addEdges(startNode), the
\* second Step
MstStart(graph, startNode) ==
  LET g0 == PrimPush([alg |-> "mst", pc |-> "prim",
                      nodes |-> graph.nodes, adj |-> graph.adj, edges |-> graph.edges,
                      pq |-> <<>>, visited |-> {}, mstEdges |-> {},
                      sortedEdges |-> <<>>, next |-> 0,
                      parent |-> [n \in Range(graph.nodes) |-> n],
                      prims |-> <<>>, kruskals |-> <<>>], "start", NoEdge)
  IN PrimPush([g0 EXCEPT !.visited = {startNode},
                         !.pq = PrimAddEdges(g0, g0.pq, startNode, 1)], "edges", NoEdge)

\* one turn of while (!pq.isEmpty() && visited.size < graph.nodes.length): the
\* "extract" Step; an edge between two visited nodes is discarded ("discard"
\* Step); otherwise it joins the tree and the new node's edges are enqueued
\* ("add" and "edges" Steps)
PrimExtract ==
  /\ gen.alg = "mst" /\ gen.pc = "prim"
  /\ Len(gen.pq) > 0 /\ Cardinality(gen.visited) < Len(gen.nodes)
  /\ LET edge == gen.pq[1].element
         newNode == IF edge.from \in gen.visited THEN edge.to ELSE edge.from
         g1 == PrimPush([gen EXCEPT !.pq = Tail(@)], "extract", edge)
         g2 == PrimPush([g1 EXCEPT !.mstEdges = @ \cup {getEdgeKey(edge)}], "add", edge)
     IN gen' = IF edge.from \in gen.visited /\ edge.to \in gen.visited
                 THEN PrimPush(g1, "discard", edge)
                 ELSE PrimPush([g2 EXCEPT !.visited = @ \cup {newNode},
                                          !.pq = PrimAddEdges(gen, g2.pq, newNode, 1)],
                               "edges", NoEdge)
  /\ UNCHANGED <<playback, main>>

\* a Step of Kruskal's trace; its getSets() call compresses every path
KruskalPush(g, desc, edge) ==
  [g EXCEPT !.kruskals = Append(@,
              [description |-> desc, highlightedEdge |-> edge, dataStructure |-> g.sortedEdges,
               nodeSets |-> DsuGetSets(g.parent), mstEdges |-> g.mstEdges]),
            !.parent = DsuGetSets(g.parent)]

\* Prim's loop is over: its closing Step; then Kruskal's generator is called on
\* the same graph: [...graph.edges].sort((a, b) => a.weight - b.weight), a fresh
\* DisjointSet, the opening Step
PrimFinish ==
  /\ gen.alg = "mst" /\ gen.pc = "prim"
  /\ ~(Len(gen.pq) > 0 /\ Cardinality(gen.visited) < Len(gen.nodes))
  /\ LET g1 == PrimPush([gen EXCEPT !.pq = <<>>], "complete", NoEdge)
         sorted == PqStable([k \in DOMAIN gen.edges |->
                               [element |-> gen.edges[k],
                                priority |-> JsNum(gen.edges[k].weight)]])
     IN gen' = KruskalPush([g1 EXCEPT !.pc = "kruskal", !.mstEdges = {},
                                      !.sortedEdges = [k \in DOMAIN sorted |-> sorted[k].element],
                                      !.next = 1],
                           "start", NoEdge)
  /\ UNCHANGED <<playback, main>>

KruskalJoins_always(parent, edge) == TRUE

\* dsu.find(edge.from) !== dsu.find(edge.to)
KruskalJoins(parent, edge) == DsuRoot(parent, edge.from) # DsuRoot(parent, edge.to)

\* one turn of for (const edge of sortedEdges): the "consider" Step; an edge
\* that joins two sets enters the MST after union ("add" Step), an edge that
\* would close a cycle is discarded ("discard" Step)
KruskalConsider ==
  /\ gen.alg = "mst" /\ gen.pc = "kruskal" /\ gen.next <= Len(gen.sortedEdges)
  /\ LET edge == gen.sortedEdges[gen.next]
         g1 == KruskalPush(gen, "consider", edge)
     IN gen' = IF KruskalJoins(g1.parent, edge)
                 THEN KruskalPush([g1 EXCEPT !.parent = DsuUnion(@, edge.from, edge.to),
                                             !.mstEdges = @ \cup {getEdgeKey(edge)},
                                             !.next = @ + 1], "add", edge)
                 ELSE KruskalPush([g1 EXCEPT !.next = @ + 1], "discard", edge)
  /\ UNCHANGED <<playback, main>>

\* every edge was considered: the closing Step, return steps
KruskalFinish ==
  /\ gen.alg = "mst" /\ gen.pc = "kruskal" /\ gen.next > Len(gen.sortedEdges)
  /\ gen' = [KruskalPush(gen, "finished", NoEdge) EXCEPT !.pc = "done"]
  /\ UNCHANGED <<playback, main>>

\* ----------------------------------------------------------- Floyd-Warshall
\* the weight that replaces some weights of the sample in the input graphs
FwOtherWeight == 9

\* the input graphs: the sample of the module; the sample with some of its first
\* three weights replaced; and each of these without some of its last three edges
FwGraphs ==
  LET sample == << [from |-> "A", to |-> "B", weight |-> 3], [from |-> "A", to |-> "D", weight |-> 7],
                   [from |-> "B", to |-> "C", weight |-> 2], [from |-> "C", to |-> "A", weight |-> 8],
                   [from |-> "D", to |-> "C", weight |-> 1], [from |-> "D", to |-> "B", weight |-> 4] >>
  IN { [nodes |-> <<"A", "B", "C", "D">>,
        edges |-> LET isKept(e) == \E k \in kept \cup {1, 2, 3} :
                                     sample[k].from = e.from /\ sample[k].to = e.to
                  IN SelectSeq([k \in DOMAIN sample |->
                                  IF k \in changed THEN [sample[k] EXCEPT !.weight = FwOtherWeight]
                                  ELSE sample[k]], isKept)] :
         changed \in SUBSET {1, 2, 3}, kept \in SUBSET {4, 5, 6} }

\* steps.push({ dataStructure: [k, i, j], ..., distanceMatrix: dist.map(row => [...row]) })
FwPush(g, desc) ==
  [g EXCEPT !.steps = Append(@,
     [dataStructure |-> <<g.k, g.i, g.j>>, description |-> desc, distanceMatrix |-> g.dist])]

\* nodeIds and nodeIndexMap (positions count from 1 here); dist: INF everywhere,
\* 0 on the diagonal, then dist[u][v] = edge.weight for the edges in order; the
\* opening Step
FwStart(graph) ==
  LET nodeIds == graph.nodes
      nodeIndexMap == [n \in Range(nodeIds) |-> CHOOSE i \in DOMAIN nodeIds : nodeIds[i] = n]
      RECURSIVE initial(_, _)
      initial(dist, n) ==
        IF n > Len(graph.edges) THEN dist
        ELSE initial([dist EXCEPT ![nodeIndexMap[graph.edges[n].from]]
                                   [nodeIndexMap[graph.edges[n].to]] =
                                      JsNum(graph.edges[n].weight)],
                     n + 1)
  IN FwPush([alg |-> "floyd", pc |-> "loop", nodes |-> nodeIds, edges |-> graph.edges,
             dist |-> initial([r \in DOMAIN nodeIds |->
                                 [c \in DOMAIN nodeIds |-> IF r = c THEN JsNum(0) ELSE JsInf]],
                              1),
             k |-> 1, i |-> 1, j |-> 1,
             steps |-> <<>>], "init")

FwImproves_unset(g) ==
  /\ g.dist[g.i][g.k] # JsInf /\ g.dist[g.k][g.j] # JsInf
  /\ g.dist[g.i][g.j] = JsInf

\* path_ik !== INF && path_kj !== INF && (path_ij === INF || newDist < path_ij)
FwImproves(g) ==
  /\ g.dist[g.i][g.k] # JsInf /\ g.dist[g.k][g.j] # JsInf
  /\ \/ g.dist[g.i][g.j] = JsInf
     \/ JsLess(JsAdd(g.dist[g.i][g.k], g.dist[g.k][g.j]), g.dist[g.i][g.j])

\* one turn of the innermost loop: the "check" Step; when the way over k is
\* shorter, dist[i][j] is lowered and the "update" Step follows; then j++, past
\* the last j i++, past the last i k++
FwRelax ==
  /\ gen.alg = "floyd" /\ gen.pc = "loop" /\ gen.k <= Len(gen.nodes)
  /\ LET advance(g) ==
           IF g.j < Len(g.nodes) THEN [g EXCEPT !.j = @ + 1]
           ELSE IF g.i < Len(g.nodes) THEN [g EXCEPT !.j = 1, !.i = @ + 1]
           ELSE [g EXCEPT !.j = 1, !.i = 1, !.k = @ + 1]
         g1 == FwPush(gen, "check")
     IN gen' = IF FwImproves(gen)
                 THEN advance(FwPush([g1 EXCEPT !.dist[gen.i][gen.j] =
                                                  JsAdd(gen.dist[gen.i][gen.k],
                                                        gen.dist[gen.k][gen.j])],
                                     "update"))
                 ELSE advance(g1)
  /\ UNCHANGED <<playback, main>>

\* the loops are over: the closing Step, return steps
FwFinish ==
  /\ gen.alg = "floyd" /\ gen.pc = "loop" /\ gen.k > Len(gen.nodes)
  /\ gen' = [FwPush([gen EXCEPT !.k = 0, !.i = 0, !.j = 0], "complete") EXCEPT !.pc = "done"]
  /\ UNCHANGED <<playback, main>>

\* ------------------------------------------------------ articulation points
ApSample ==
  [ nodes |-> <<"A", "B", "C", "D", "E", "F">>,
    adj |-> [A |-> <<"B", "C">>, B |-> <<"A", "D">>, C |-> <<"A", "D">>,
             D |-> <<"B", "C", "E", "F">>, E |-> <<"D">>, F |-> <<"D">>] ]

\* generateSteps up to the first turn of the loop of dfs(startNode).  disc and
\* low hold 0 for a key that is not set; parent starts as {}, so that reading
\* parent[n] before it is assigned gives undefined; stack holds the calls of dfs
\* in progress (u, the position i in adj[u], children).
ApStart(graph, startNode) ==
  LET disc == [n \in Range(graph.nodes) |-> IF n = startNode THEN 1 ELSE 0]
  IN [alg |-> "ap", pc |-> "dfs", graph |-> graph,
      disc |-> disc, low |-> disc,
      parent |-> [n \in Range(graph.nodes) |-> "undefined"],
      ap |-> {}, time |-> 1, rootChildren |-> 0,
      stack |-> <<[u |-> startNode, i |-> 1, children |-> 0]>>,
      steps |-> <<[description |-> "visit", currentNode |-> startNode, neighbor |-> "null",
                   discoveryTime |-> disc, lowLink |-> disc, nodeSets |-> {}]>>]

\* one turn of the for loop of the innermost dfs call: descend into an unvisited
\* neighbor (up to the first turn of the callee), note a back edge, or skip the
\* parent; past the last neighbor the call returns and its caller runs the rest
\* of its turn (lines 70-80)
ApTurn ==
  /\ gen.alg = "ap" /\ gen.pc = "dfs" /\ Len(gen.stack) > 0
  /\ LET top == Len(gen.stack)
         u == gen.stack[top].u
         i == gen.stack[top].i
         push(g, desc, current, neighbor) ==
           [g EXCEPT !.steps = Append(@, [description |-> desc, currentNode |-> current,
                                          neighbor |-> neighbor, discoveryTime |-> g.disc,
                                          lowLink |-> g.low, nodeSets |-> g.ap])]
     IN IF i <= Len(gen.graph.adj[u])
        THEN LET v == gen.graph.adj[u][i]
             IN IF gen.disc[v] = 0
                THEN LET moved == push([gen EXCEPT !.stack[top].children = @ + 1,
                                                   !.parent[v] = u], "move", u, v)
                         time1 == gen.time + 1
                     IN gen' = push([moved EXCEPT !.time = time1, !.disc[v] = time1,
                                                  !.low[v] = time1,
                                                  !.stack = Append(@, [u |-> v, i |-> 1,
                                                                       children |-> 0])],
                                    "visit", v, "null")
                ELSE IF v # gen.parent[u]
                THEN gen' = push([gen EXCEPT !.low[u] = Min(@, gen.disc[v]),
                                             !.stack[top].i = @ + 1], "back edge", u, v)
                ELSE gen' = [gen EXCEPT !.stack[top].i = @ + 1]
        ELSE IF top = 1
        THEN gen' = [gen EXCEPT !.stack = <<>>, !.rootChildren = gen.stack[1].children]
        ELSE LET w == gen.stack[top - 1].u
                 children == gen.stack[top - 1].children
                 back == push([gen EXCEPT !.stack = SubSeq(@, 1, top - 1),
                                          !.low[w] = Min(@, gen.low[u])], "back", w, u)
                 root == IF back.parent[w] = "null" /\ children > 1
                         THEN push([back EXCEPT !.ap = @ \cup {w}], "root", w, "null")
                         ELSE back
                 cut == IF root.parent[w] # "null" /\ root.low[u] >= root.disc[w]
                        THEN push([root EXCEPT !.ap = @ \cup {w}], "articulation point", w, u)
                        ELSE root
             IN gen' = [cut EXCEPT !.stack[top - 1].i = @ + 1]
  /\ UNCHANGED <<playback, main>>

ApFinish ==
  /\ gen.alg = "ap" /\ gen.pc = "dfs" /\ Len(gen.stack) = 0
  /\ gen' = [gen EXCEPT !.pc = "done",
                        !.steps = Append(@, [description |-> "complete", currentNode |-> "null",
                                             neighbor |-> "null", discoveryTime |-> gen.disc,
                                             lowLink |-> gen.low, nodeSets |-> gen.ap])]
  /\ UNCHANGED <<playback, main>>

\* ------------------------------------------------------------ Eulerian path
EulerSample ==
  [ nodes |-> <<"A", "B", "C", "D", "E">>,
    adj |-> [A |-> <<"B", "D">>, B |-> <<"A", "C", "D", "E">>, C |-> <<"B", "E">>,
             D |-> <<"A", "B", "E">>, E |-> <<"B", "C", "D">>],
    edges |-> <<<<"A", "B">>, <<"A", "D">>, <<"B", "C">>, <<"B", "D">>, <<"B", "E">>,
                <<"C", "E">>, <<"D", "E">>>> ]

\* generateSteps up to the loop that traces the path: the degrees, the Step
\* that shows them and the Step of the branch taken on oddDegreeNodes.length
EulerStart(graph) ==
  LET degrees == [n \in Range(graph.nodes) |-> Len(graph.adj[n])]
      isOdd(id) == degrees[id] % 2 # 0
      oddDegreeNodes == SelectSeq(graph.nodes, isOdd)
      shown(desc, ds) == [description |-> desc, currentNode |-> "null",
                         highlightedPath |-> <<>>, distances |-> degrees, dataStructure |-> ds]
      first == shown("start", <<>>)
  IN [alg |-> "euler", graph |-> graph, degrees |-> degrees,
      oddDegreeNodes |-> oddDegreeNodes,
      path |-> IF Len(oddDegreeNodes) = 2 THEN <<"A", "D", "B", "E", "C", "B", "A">> ELSE <<>>,
      i |-> 1,
      pc |-> IF Len(oddDegreeNodes) = 2 THEN "trace" ELSE "done",
      steps |-> CASE Len(oddDegreeNodes) = 0 -> <<first, shown("circuit exists", <<0>>)>>
                  [] Len(oddDegreeNodes) = 2 -> <<first, shown("path exists", <<2>>)>>
                  [] OTHER -> <<first, shown("none exists", <<Len(oddDegreeNodes)>>)>>]

\* one turn of for (let i = 1; i < path.length; i++) (i counts from 0 in the
\* code, gen.i is the same number: path[i] is gen.path[gen.i + 1]); when the
\* loop ends, the closing Step and the return
EulerTrace ==
  /\ gen.alg = "euler" /\ gen.pc = "trace"
  /\ gen' = IF gen.i < Len(gen.path)
            THEN [gen EXCEPT !.i = @ + 1,
                             !.steps = Append(@, [description |-> "tracing",
                                                  currentNode |-> gen.path[gen.i + 1],
                                                  highlightedPath |-> SubSeq(gen.path, 1, gen.i + 1),
                                                  distances |-> gen.degrees,
                                                  dataStructure |-> <<2>>])]
            ELSE [gen EXCEPT !.pc = "done",
                             !.steps = Append(@, [description |-> "Path complete! Every edge was visited exactly once.",
                                                  currentNode |-> "null",
                                                  highlightedPath |-> gen.path,
                                                  distances |-> gen.degrees,
                                                  dataStructure |-> <<2>>])]
  /\ UNCHANGED <<playback, main>>

\* ------------------------------------------------------- max-flow introduction
IntroSample ==
  [ nodes |-> <<"S", "A", "B", "T">>,
    adj |-> [S |-> <<"A", "B">>, A |-> <<"B", "T">>, B |-> <<"T">>, T |-> <<>>],
    edges |-> << [from |-> "S", to |-> "A", weight |-> 10], [from |-> "S", to |-> "B", weight |-> 5],
                 [from |-> "A", to |-> "B", weight |-> 3], [from |-> "A", to |-> "T", weight |-> 5],
                 [from |-> "B", to |-> "T", weight |-> 8] >> ]

\* generateSteps up to its first Step: flows holds one key per edge, from -> to;
\* script is the rest of the function, the three paths and bottlenecks it spells out
IntroStart(graph) ==
  LET flows == [key \in { <<graph.edges[i].from, graph.edges[i].to>> : i \in DOMAIN graph.edges } |-> 0]
  IN [alg |-> "intro", pc |-> "script", graph |-> graph, flows |-> flows, totalFlow |-> 0,
      script |-> << [path |-> <<"S", "A", "T">>, bottleneck |-> 5],
                    [path |-> <<"S", "B", "T">>, bottleneck |-> 5],
                    [path |-> <<"S", "A", "B", "T">>, bottleneck |-> 3] >>,
      k |-> 1,
      steps |-> <<[description |-> "start", currentNode |-> "S", highlightedPath |-> <<>>,
                   flows |-> flows, dataStructure |-> <<0>>]>>]

\* the next path of the function: the Step that shows it, flows[...] += bottleneck
\* on each of its edges, totalFlow, the Step after the push; after the third
\* path the closing Step and the return
IntroPush ==
  /\ gen.alg = "intro" /\ gen.pc = "script"
  /\ LET shown(g, desc, path) ==
           [g EXCEPT !.steps = Append(@, [description |-> desc, currentNode |-> "null",
                                          highlightedPath |-> path, flows |-> g.flows,
                                          dataStructure |-> <<g.totalFlow>>])]
     IN IF gen.k <= Len(gen.script)
        THEN LET path == gen.script[gen.k].path
                 bottleneck == gen.script[gen.k].bottleneck
                 onPath == { <<path[i], path[i + 1]>> : i \in 1..(Len(path) - 1) }
                 found == shown(gen, "path", path)
             IN gen' = shown([found EXCEPT !.flows = [key \in DOMAIN @ |->
                                                       IF key \in onPath THEN @[key] + bottleneck
                                                       ELSE @[key]],
                                           !.totalFlow = @ + bottleneck,
                                           !.k = @ + 1], "push", path)
        ELSE gen' = [shown(gen, "complete", <<>>) EXCEPT !.pc = "done"]
  /\ UNCHANGED <<playback, main>>

\* ------------------------------------------------------------ generator calls
\* a generator is called on its input (MainContent passes nodes[0].id as the
\* start node) and runs to its return without a pause
InitGenerators ==
  /\ PlaybackIdle /\ main = MainHome
  /\ \/ gen = KargerStart
     \/ gen = RottenBegin(RottenGrid, <<>>)
     \/ \E graph \in JohnsonGraphs : gen = JohnsonStart(graph)
     \/ \E graph \in Reweighted(FlowSample, FlowOtherWeight) :
          gen = FfStart(graph) \/ gen = McStart(graph)
     \/ \E graph \in Reweighted(DijSample, DijOtherWeight) : gen = DijStart(graph, graph.nodes[1])
     \/ \E graph \in BfsGraphs, alg \in {"bfs", "unweighted"} :
          gen = BfsStart(alg, graph, graph.nodes[1])
     \/ \E graph \in Reweighted(MstSample, MstOtherWeight) : gen = MstStart(graph, graph.nodes[1])
     \/ \E graph \in FwGraphs : gen = FwStart(graph)
     \/ gen = DsuNew({"A", "B", "C", "D"})
     \/ gen = ApStart(ApSample, ApSample.nodes[1])
     \/ gen = EulerStart(EulerSample)
     \/ gen = IntroStart(IntroSample)

SpecGenerators ==
  /\ InitGenerators
  /\ [][\/ KargerSelect \/ KargerContract \/ KargerFinish
        \/ RottenSpread \/ RottenReturn \/ RottenCallAgain
        \/ JohnsonBellmanFord \/ JohnsonReweight \/ JohnsonDijkstraStart
        \/ JohnsonDequeue \/ JohnsonConvert \/ JohnsonFinish
        \/ FfAugment \/ FfFinish \/ McAugment \/ McMaxFlow \/ McReach \/ McCut
        \/ DijDequeue \/ DijFinish
        \/ BfsProcess \/ BfsFinish
        \/ PrimExtract \/ PrimFinish \/ KruskalConsider \/ KruskalFinish
        \/ FwRelax \/ FwFinish
        \/ DsuCallFind \/ DsuCallUnion \/ DsuCallGetSets
        \/ ApTurn \/ ApFinish \/ EulerTrace \/ IntroPush]_vars

\* -------------------------------------------------------------- MainContent
\* the topics App can pass as the topic prop, by the branch fetchContent takes:
\* a custom component, a module of animationMap (loaded with import()), or the
\* text explanation fetched from the service
Topics ==
  [ custom |-> {"Graph and its representations"},
    animation |-> {"Difference between BFS and DFS",
                   "Prim's vs Kruskal's algorithm for MST", "Bridges in a graph"},
    text |-> {"Graph coloring", "Travelling salesman"} ]

MainFailed_silent(m) == m

\* catch (err) { setError(...) }
MainFailed(m) == [m EXCEPT !.error = "Failed to fetch content. Please try again later."]

\* what the component renders from its props and state
MainRender(m) ==
  IF m.topic = "" THEN [page |-> "home", spinner |-> FALSE, error |-> "", body |-> "", of |-> ""]
  ELSE [page |-> m.topic, spinner |-> m.isLoading, error |-> m.error,
        body |-> CASE m.isLoading \/ m.error # "" -> ""
                   [] m.customComponent # "" -> "custom"
                   [] m.animationData # "" /\ m.comparisonType = "bfs-dfs" -> "CompareBfsDfs"
                   [] m.animationData # "" /\ m.comparisonType = "mst" -> "CompareMST"
                   [] m.animationData # "" -> "GraphAnimation"
                   [] OTHER -> "ContentDisplay",
        of |-> CASE m.isLoading \/ m.error # "" -> ""
                 [] m.customComponent # "" -> m.customComponent
                 [] m.animationData # "" -> m.animationData
                 [] OTHER -> m.content]

\* App sets another topic (a sidebar click, the hash, the home button: "" is
\* null) and the effect of MainContent runs up to its first await
MainSelect(t) ==
  /\ t # main.topic
  /\ LET cleared == [main EXCEPT !.topic = t, !.content = "", !.animationData = "",
                                 !.customComponent = "", !.current = 0,
                                 !.last = [op |-> "select", kind |-> "", ok |-> TRUE,
                                           stale |-> FALSE, was |-> main.isLoading]]
         begun == [cleared EXCEPT !.isLoading = TRUE, !.error = "", !.comparisonType = ""]
         load(kind) == [id |-> main.issued + 1, topic |-> t, kind |-> kind]
         await(kind) == [begun EXCEPT !.pending = @ \cup {load(kind)},
                                      !.issued = @ + 1, !.current = main.issued + 1,
                                      !.fetches = IF kind = "text" THEN @ + 1 ELSE @,
                                      !.last.kind = kind]
     IN CASE t = "" -> main' = cleared
          [] t \in Topics.custom ->
               main' = [begun EXCEPT !.customComponent = t, !.isLoading = FALSE,
                                     !.last.kind = "custom"]
          [] t \in Topics.animation -> main.issued < MaxLoads /\ main' = await("animation")
          [] OTHER -> main.issued < MaxLoads /\ main' = await("text")
  /\ UNCHANGED <<playback, gen>>

\* an awaited promise settles and fetchContent runs to its end: import() and
\* generateSteps, or getTopicExplanation, returned (ok) or threw
MainSettle(load, ok) ==
  /\ load \in main.pending
  /\ LET got == CASE ~ok -> MainFailed(main)
                  [] load.kind = "text" -> [main EXCEPT !.content = load.topic]
                  [] OTHER ->
                       [main EXCEPT !.animationData = load.topic,
                                    !.comparisonType =
                                       CASE load.topic = "Difference between BFS and DFS" -> "bfs-dfs"
                                         [] load.topic = "Prim's vs Kruskal's algorithm for MST" -> "mst"
                                         [] OTHER -> @]
     IN main' = [got EXCEPT !.isLoading = FALSE, !.pending = @ \ {load},
                            !.last = [op |-> "settle", kind |-> load.kind, ok |-> ok,
                                      stale |-> load.id # main.current,
                                      was |-> main.isLoading]]
  /\ UNCHANGED <<playback, gen>>

InitContent == PlaybackIdle /\ gen = NoGen /\ main = MainHome

SpecContent ==
  /\ InitContent
  /\ [][\/ \E t \in {""} \cup Topics.custom \cup Topics.animation \cup Topics.text : MainSelect(t)
        \/ \E load \in main.pending, ok \in BOOLEAN : MainSettle(load, ok)]_vars

\* ================================================================== claims

\* C1: in the stand-alone GraphAnimation over a trace of length len >= 1 the
\* current index is in [0, len-1] after any sequence of next, prev and reset,
\* also when interleaved with play, pause, speed changes and timer ticks.
C1_IndexInRange ==
  view = "single" =>
    /\ steps["solo"] >= 1
    /\ internalStep["solo"] \in 0..(steps["solo"] - 1)
    /\ rendered["solo"] = internalStep["solo"]

\* Next was clicked between a timer tick and its render, and the index is the last
C1_Witness ==
  /\ view = "single"
  /\ last.op = "next" /\ last.inflight = 1
  /\ steps["solo"] = MaxLen
  /\ internalStep["solo"] = steps["solo"] - 1

\* C2 (as claimed): in CompareMST the shared index stays in [0, maxSteps-1]
\* under every interleaving of timer ticks with next, prev and reset.
C2_SharedIndexInRange ==
  view = "mst" => step \in 0..(maxSteps - 1)

\* C3: at most one auto-advance timeout is pending, only while playing, and it
\* is the one scheduled by the last render: it is the timeout the effect's
\* cleanup holds, it carries the current index and the current speed, and the
\* index is below the last.  A change of index, play state, speed or trace
\* length therefore never leaves an older timeout behind.
C3_OnePendingTimer ==
  /\ Cardinality(timers) <= 1
  /\ \A t \in timers :
       /\ t.owner = Root
       /\ isPlaying[Root]
       /\ queue = <<>>
       /\ t.id = held[Root]
       /\ t.from = Index
       /\ t.delay = speed[Root]
       /\ Index < TraceLen - 1

\* a timeout rescheduled by a speed change at an index reached by auto-advance
C3_Witness ==
  /\ last.op = "speed" /\ last.was
  /\ Cardinality(timers) = 1
  /\ Index > 0
  /\ speed[Root] # DefaultSpeed

\* C4: for every value of the shared index each compared trace draws the Step
\* at min(sharedIndex, ownLength-1): the shared index itself while it is
\* within the trace, the final Step once it is beyond.
C4_ComparisonClamping ==
  view = "mst" =>
    \A g \in Children :
      /\ rendered[g] = Min(step, steps[g] - 1)
      /\ step <= steps[g] - 1 => rendered[g] = step
      /\ step > steps[g] - 1 => rendered[g] = steps[g] - 1

\* the shared index is beyond the shorter trace and still moving in the longer one
C4_Witness ==
  /\ view = "mst"
  /\ last.op = "flush"
  /\ steps["prims"] < steps["kruskals"]
  /\ step > steps["prims"] - 1
  /\ rendered["prims"] = steps["prims"] - 1
  /\ rendered["kruskals"] = step
  /\ step = last.from + 1

\* C5: play pressed while the index is the last index changes nothing: the
\* controller is not playing afterwards, no timeout is pending and the index
\* is where it was.
C5_PlayAtLastIsNoop ==
  (last.op = "play" /\ last.from = TraceLen - 1) =>
    /\ ~isPlaying[Root]
    /\ timers = {}
    /\ queue = <<>>
    /\ Index = last.from

\* play was pressed at the end of a trace of more than one Step
C5_Witness ==
  /\ last.op = "play"
  /\ TraceLen >= 2
  /\ last.from = TraceLen - 1
  /\ Index = TraceLen - 1

\* C6 (as claimed): in externally controlled mode every auto-advance of the
\* shared index is scheduled by a Playback Controller (a GraphAnimation child)
\* itself: the pending timeouts and the ticks that fire belong to the children.
C6_ControllerOwnsTimer ==
  view = "mst" =>
    /\ \A t \in timers : t.owner \in Children
    /\ last.op = "fire" => last.c \in Children

\* C6 (amended): in externally controlled mode the GraphAnimation children
\* never play and never hold a timeout; every pending timeout and every tick
\* of the shared index belongs to CompareMST, which dispatches it to the same
\* step state its setStep (the children's onStepChange) writes.
C6_SyncLayerOwnsTimer ==
  view = "mst" =>
    /\ \A g \in Children : isExternallyControlled(g) /\ ~isPlaying[g] /\ held[g] = 0
    /\ \A t \in timers : t.owner = "mst"
    /\ last.op = "fire" => (last.c = "mst" /\ queue = <<Inc>>)

\* an auto-advance of the shared index was rendered and the next one is scheduled
C6_Witness ==
  /\ view = "mst"
  /\ last.op = "flush" /\ last.c = "mst"
  /\ step = last.from + 1
  /\ isPlaying["mst"]
  /\ \E t \in timers : t.owner = "mst" /\ t.from = step

\* C7: after pause the controller is idle, no timeout is pending and no update
\* is in flight; the index is the rendered index plus the tick that had already
\* fired, if any; and while idle the index changes only by next, prev, reset or
\* a new trace.
C7_PauseHoldsIndex ==
  /\ [](last.op = "pause" =>
          /\ ~isPlaying[Root]
          /\ timers = {}
          /\ queue = <<>>
          /\ Index = last.from + last.inflight)
  /\ [][(~isPlaying[Root] /\ Index' # Index) =>
          last'.op \in {"next", "prev", "reset", "trace", "mount"}]_vars

\* paused in the middle of a trace that auto-advance had been moving through
C7_Witness ==
  /\ last.op = "pause" /\ last.was
  /\ last.inflight = 0
  /\ ~isPlaying[Root]
  /\ Index > 0 /\ Index < TraceLen - 1

\* C8: after the steps prop of GraphAnimation or the data prop of CompareMST is
\* replaced, and after a new component is mounted for another topic, the index
\* is 0, nothing is playing and no timeout or update is left over.
C8_TraceChangeResets ==
  last.op \in {"trace", "mount"} =>
    /\ Index = 0
    /\ \A c \in Comp : ~isPlaying[c]
    /\ timers = {}
    /\ queue = <<>>
    /\ \A g \in GA : rendered[g] = 0

\* the traces of a playing comparison were replaced with a tick in flight
C8_Witness ==
  /\ last.op = "trace" /\ last.c = "mst"
  /\ last.was /\ last.from > 0 /\ last.inflight = 1
  /\ step = 0

\* C9 (as claimed): next moves the index by exactly +1 and prev by exactly -1,
\* clamped to [0, len-1], and both leave the controller idle.
C9_NextPrevByOne ==
  /\ last.op = "next" => (Index = Min(last.from + 1, TraceLen - 1) /\ ~isPlaying[Root])
  /\ last.op = "prev" => (Index = Max(last.from - 1, 0) /\ ~isPlaying[Root])

\* C10: a speed change contributes nothing to the index or the play state:
\* they come out as the render that was already due would leave them, and with
\* no tick in flight they are exactly what they were; only the speed of the
\* component whose slider moved changes.
C10_SetSpeedFrame ==
  [][last'.op = "speed" =>
       LET r == Commit(queue, isPlaying, speed, steps, FALSE)
       IN /\ Index' = r.idx
          /\ isPlaying' = r.playing
          /\ queue = <<>> => (Index' = Index /\ isPlaying' = isPlaying)
          /\ view' = view /\ steps' = steps
          /\ \A c \in Comp : c # last'.c => speed'[c] = speed[c]]_vars

\* the speed was changed during play and the timeout now carries the new delay
C10_Witness ==
  /\ last.op = "speed" /\ last.was /\ last.inflight = 0
  /\ isPlaying[Root]
  /\ Index = last.from /\ Index > 0
  /\ speed[Root] = SpeedOfSlider(SliderMin)
  /\ \E t \in timers : t.delay = speed[Root] /\ t.from = Index

\* C11 (as claimed): once a Step has been appended, what it shows never changes
\* during the rest of the generation: every Step still reads as it did when it
\* was pushed.
C11_StepsAreSnapshots ==
  gen.alg = "karger" =>
    \A i \in DOMAIN gen.steps :
      KargerStepValue(gen.steps[i].ref, gen.obj, gen.arr) = gen.steps[i].asAppended

\* C12 (as claimed): two successive calls of a non-randomized generator in the
\* same process return structurally identical Step sequences.
C12_RepeatedCallsAgree ==
  gen.alg = "rotten" =>
    \A i \in DOMAIN gen.traces : gen.traces[i] = gen.traces[1]

C14_DistancesAreNumbers ==
  gen.alg = "johnson" =>
    \A k \in DOMAIN gen.steps :
      LET st == gen.steps[k]
          \* the distances the Step shows: the object it refers to, as it is now
          distances == CASE st.distances = "h" -> { gen.h[n] : n \in DOMAIN gen.h }
                         [] st.distances = "run" ->
                              { gen.runs[st.run][n] : n \in Range(gen.nodes) }
                         [] OTHER -> {}
          cells == { st.distanceMatrix[r][c] :
                       r \in DOMAIN st.distanceMatrix, c \in 1..Len(gen.nodes) }
      IN \A v \in distances \cup cells : v.t = "num" \/ v = JsInf

\* C15 (as claimed): on the sample network the Ford-Fulkerson generator ends
\* with a total flow of 14.
C15_SampleFlowIs14 ==
  (gen.alg = "fordfulkerson" /\ gen.pc = "done" /\ gen.edges = FlowSample.edges)
    => gen.totalFlow = 14

\* C15 (corrected): on the sample network the Ford-Fulkerson generator ends with
\* a total flow of 18, the value shown by its closing Step.
C15_SampleFlowIs18 ==
  (gen.alg = "fordfulkerson" /\ gen.pc = "done" /\ gen.edges = FlowSample.edges)
    => /\ gen.totalFlow = 18
       /\ gen.steps[Len(gen.steps)].dataStructure = 18

C15_Witness ==
  gen.alg = "fordfulkerson" /\ gen.pc = "done" /\ gen.edges = FlowSample.edges

\* C16: when a flow generator has ended, its total flow equals the capacity of
\* the cut whose source side is the set of nodes reachable from S in the final
\* residual graph; the minimum-cut generator reports exactly that cut.
C16_MaxFlowIsMinCut ==
  (gen.alg \in {"fordfulkerson", "mincut"} /\ gen.pc = "done")
    => LET RECURSIVE reach(_)
           reach(set) ==
             LET next == set \cup { v \in Range(gen.nodes) :
                                      \E u \in set : FlowResidual(gen, u, v) > 0 }
             IN IF next = set THEN set ELSE reach(next)
           reachable == reach({"S"})
           RECURSIVE capacity(_)
           capacity(ks) ==
             IF ks = {} THEN 0
             ELSE LET k == CHOOSE x \in ks : TRUE
                  IN gen.edges[k].weight + capacity(ks \ {k})
           cut == { k \in DOMAIN gen.edges :
                      gen.edges[k].from \in reachable /\ gen.edges[k].to \notin reachable }
       IN /\ gen.totalFlow = capacity(cut)
          /\ gen.alg = "mincut" => /\ gen.sSet = reachable
                                   /\ gen.cutValue = gen.totalFlow

C16_Witness ==
  /\ gen.alg = "mincut" /\ gen.pc = "done" /\ gen.edges = FlowSample.edges
  /\ gen.totalFlow > 0 /\ gen.sSet # {"S"}

\* C17: the distances in the closing Step of Dijkstra's generator, started at A,
\* are numbers and are the shortest-path distances of the graph; on the sample
\* graph they are A 0, B 3, C 2, D 8, E 5, F 6.
C17_DijkstraShortest ==
  (gen.alg = "dijkstra" /\ gen.pc = "done")
    => LET final == gen.steps[Len(gen.steps)].distances
           d == [n \in Range(gen.nodes) |-> final[n].n]
           edges == gen.edges
       IN /\ \A n \in Range(gen.nodes) : final[n].t = "num"
          \* d holds the shortest-path distances from A over the undirected,
          \* positively weighted edges: no edge can shorten a value, and every
          \* value other than A's is reached over some edge from a smaller one
          /\ d["A"] = 0
          /\ \A k \in DOMAIN edges :
               /\ d[edges[k].to] <= d[edges[k].from] + edges[k].weight
               /\ d[edges[k].from] <= d[edges[k].to] + edges[k].weight
          /\ \A n \in DOMAIN d :
               n # "A" =>
                 \E k \in DOMAIN edges :
                   \/ edges[k].to = n /\ d[n] = d[edges[k].from] + edges[k].weight
                   \/ edges[k].from = n /\ d[n] = d[edges[k].to] + edges[k].weight
          /\ gen.edges = DijSample.edges =>
               d = [n \in Range(gen.nodes) |->
                      CASE n = "A" -> 0 [] n = "B" -> 3 [] n = "C" -> 2
                        [] n = "D" -> 8 [] n = "E" -> 5 [] OTHER -> 6]

\* the run on the sample graph has ended, and B was first set to 4 over A-B and
\* then lowered over C
C17_Witness ==
  /\ gen.alg = "dijkstra" /\ gen.pc = "done" /\ gen.edges = DijSample.edges
  /\ \E k \in DOMAIN gen.steps : gen.steps[k].distances["B"] = JsNum(4)
  /\ gen.steps[Len(gen.steps)].distances["B"] = JsNum(3)

\* C18: breadth-first search from A marks the nodes visited in non-decreasing
\* order of their distance from A, and the distances in the closing Step are the
\* edge counts of shortest paths; on the sample graph they are A 0, B 1, C 1,
\* D 2, E 2, F 3.
C18_BfsLayering ==
  gen.alg \in {"bfs", "unweighted"} =>
    LET marks(st) == st.description = "visit"
        visits == SelectSeq(gen.steps, marks)
        \* the nodes in the order in which the trace marks them visited
        order == <<"A">> \o [k \in DOMAIN visits |-> visits[k].neighbor]
        \* the nodes at most k edges away from A
        RECURSIVE within(_)
        within(k) == IF k = 0 THEN {"A"}
                     ELSE LET inner == within(k - 1)
                          IN inner \cup UNION { Range(gen.adj[n]) : n \in inner }
        ball == [k \in 0..Len(gen.nodes) |-> within(k)]
        \* the number of edges on a shortest path from A to n
        distance == [n \in Range(gen.nodes) |->
                       Cardinality({ k \in DOMAIN ball : n \notin ball[k] })]
        final == gen.steps[Len(gen.steps)].distances
    IN /\ \A i, j \in DOMAIN order : i < j => distance[order[i]] <= distance[order[j]]
       /\ (gen.pc = "done" /\ gen.alg = "unweighted") =>
            /\ \A n \in Range(gen.nodes) : final[n] = JsNum(distance[n])
            /\ gen.adj = BfsSample.adj =>
                 final = [n \in Range(gen.nodes) |->
                            CASE n = "A" -> JsNum(0) [] n \in {"B", "C"} -> JsNum(1)
                              [] n \in {"D", "E"} -> JsNum(2) [] OTHER -> JsNum(3)]

\* the run on the sample graph has ended with all six nodes marked
C18_Witness ==
  /\ gen.alg = "unweighted" /\ gen.pc = "done" /\ gen.adj = BfsSample.adj
  /\ gen.steps[Len(gen.steps)].visited = Range(gen.nodes)

\* C19: on the same weighted graph, the MST edge set in the closing Step of
\* Prim's trace and the one in the closing Step of Kruskal's trace have the same
\* total weight (and both span the graph with |V| - 1 edges).
C19_PrimEqualsKruskal ==
  (gen.alg = "mst" /\ gen.pc = "done")
    => LET prim == gen.prims[Len(gen.prims)].mstEdges
           kruskal == gen.kruskals[Len(gen.kruskals)].mstEdges
           \* the total weight of the edges k..Len(edges) whose key is in keys
           RECURSIVE weight(_, _)
           weight(keys, k) ==
             IF k > Len(gen.edges) THEN 0
             ELSE weight(keys, k + 1)
                    + (IF getEdgeKey(gen.edges[k]) \in keys THEN gen.edges[k].weight ELSE 0)
       IN /\ weight(prim, 1) = weight(kruskal, 1)
          /\ Cardinality(prim) = Len(gen.nodes) - 1
          /\ Cardinality(kruskal) = Len(gen.nodes) - 1

\* both traces of the comparison graph are complete, each with a tree of five
\* edges, and Kruskal has discarded an edge
C19_Witness ==
  /\ gen.alg = "mst" /\ gen.pc = "done" /\ gen.edges = MstSample.edges
  /\ Cardinality(gen.prims[Len(gen.prims)].mstEdges) = 5
  /\ \E k \in DOMAIN gen.kruskals : gen.kruskals[k].description = "discard"

\* C20: in the matrix of Floyd-Warshall's closing Step every cell is a number or
\* the sentinel, and for all i, j, k with dist[i][k] and dist[k][j] finite,
\* dist[i][j] is finite and dist[i][j] <= dist[i][k] + dist[k][j].
C20_TriangleInequality ==
  (gen.alg = "floyd" /\ gen.pc = "done")
    => LET dist == gen.steps[Len(gen.steps)].distanceMatrix
       IN \A i, j, k \in DOMAIN gen.nodes :
            /\ dist[i][j].t = "num" \/ dist[i][j] = JsInf
            /\ (dist[i][k] # JsInf /\ dist[k][j] # JsInf)
                 => /\ dist[i][j] # JsInf
                    /\ dist[i][j].n <= dist[i][k].n + dist[k][j].n

\* a run has ended in which a finite entry was lowered and a pair of nodes
\* stayed unconnected
C20_Witness ==
  /\ gen.alg = "floyd" /\ gen.pc = "done"
  /\ \E r, c \in DOMAIN gen.nodes : gen.steps[Len(gen.steps)].distanceMatrix[r][c] = JsInf
  /\ \E n \in DOMAIN gen.steps, r, c \in DOMAIN gen.nodes :
       /\ gen.steps[n].description = "update"
       /\ gen.steps[n - 1].distanceMatrix[r][c].t = "num"
       /\ gen.steps[n].distanceMatrix[r][c] # gen.steps[n - 1].distanceMatrix[r][c]

\* C21: after union(a, b) find(a) = find(b) (and the two sets, and only they,
\* are merged); find and getSets, which compress paths, leave every element in
\* the set it was in and report the root it had.
C21_UnionFindSound ==
  gen.alg = "dsu" =>
    LET \* the elements linked to n by parent pointers, in either direction
        RECURSIVE grow(_, _)
        grow(p, set) ==
          LET next == set \cup { m \in DOMAIN p : p[m] \in set \/ \E n \in set : p[n] = m }
          IN IF next = set THEN set ELSE grow(p, next)
        setOf(p, n) == grow(p, {n})
    IN /\ gen.op = "union" =>
            /\ DsuRoot(gen.parent, gen.a) = DsuRoot(gen.parent, gen.b)
            /\ \A n \in DOMAIN gen.parent :
                 setOf(gen.parent, n) =
                   IF n \in setOf(gen.before, gen.a) \cup setOf(gen.before, gen.b)
                     THEN setOf(gen.before, gen.a) \cup setOf(gen.before, gen.b)
                     ELSE setOf(gen.before, n)
       /\ gen.op \in {"find", "getSets"} =>
            \A n \in DOMAIN gen.parent :
              /\ setOf(gen.parent, n) = setOf(gen.before, n)
              /\ DsuRoot(gen.parent, n) = DsuRoot(gen.before, n)
       /\ gen.op = "find" => gen.result = DsuRoot(gen.before, gen.a)
       /\ gen.op = "getSets" =>
            \A n \in DOMAIN gen.parent : gen.result[n] = DsuRoot(gen.before, n)

\* a find has just shortened a chain of two links, in a forest built by unions
C21_Witness ==
  /\ gen.alg = "dsu" /\ gen.op = "find"
  /\ gen.before[gen.a] # gen.a /\ gen.before[gen.before[gen.a]] # gen.before[gen.a]
  /\ gen.parent[gen.a] = DsuRoot(gen.before, gen.a)

\* C22: whatever edges the random choices select, Karger's generator returns
\* after exactly |V| - 2 = 3 contractions of its sample graph, with two
\* supernodes left and a trace of 1 + 2 * 3 + 1 = 8 Steps.
C22_KargerContractions ==
  gen.alg = "karger" =>
    /\ gen.contractions <= Len(KargerStart.nodes) - 2
    /\ gen.pc = "done" =>
         /\ gen.contractions = Len(KargerStart.nodes) - 2
         /\ Len(gen.nodes) = 2
         /\ Len(gen.steps) = 8

\* a run has returned in which a contraction removed more than one edge (the
\* parallel edges it created earlier had become self-loops)
C22_Witness ==
  /\ gen.alg = "karger" /\ gen.pc = "done"
  /\ Len(gen.edges) > 0
  /\ \E k \in 2..Len(gen.steps) :
       /\ gen.steps[k].ref.description = "merge"
       /\ Len(gen.steps[k].ref.edges) < Len(gen.steps[k - 1].ref.edges) - 1

\* C23: when the fetch of a text explanation fails, MainContent holds the error
\* state (the message is set, the spinner is off, and the page of a selected
\* topic shows the message in place of its body), and nothing fetches again by
\* itself: the count of calls to the service grows only in a step that selects a
\* topic, and a failing completion starts no load.
C23_FetchFailureSurfaced ==
  /\ [](main.last.op = "settle" /\ main.last.kind = "text" /\ ~main.last.ok =>
         /\ main.error # "" /\ ~main.isLoading
         /\ main.topic # "" =>
              /\ MainRender(main).error = main.error
              /\ MainRender(main).body = "" /\ ~MainRender(main).spinner)
  /\ [][/\ main'.fetches # main.fetches =>
            \E t \in Topics.text : MainSelect(t)
        /\ (\E load \in main.pending : MainSettle(load, FALSE)) =>
            main'.fetches = main.fetches /\ main'.pending \subseteq main.pending]_vars

\* the fetch for the topic on screen has failed and its page shows the message
C23_Witness ==
  /\ main.last.op = "settle" /\ main.last.kind = "text" /\ ~main.last.ok
  /\ ~main.last.stale /\ main.last.was
  /\ main.topic \in Topics.text /\ main.fetches >= 1
  /\ MainRender(main).error # "" /\ main.pending = {}

\* C26 (as claimed): when a topic was selected while the load of an earlier one
\* was outstanding, then once every load has completed, in whatever order, the
\* page shows the content or the animation of the topic that is selected now.
C26_LatestTopicDisplayed ==
  main.pending = {} /\ main.topic # "" /\ MainRender(main).body # "" =>
    MainRender(main).of = main.topic

\* C27 (as claimed): the loading state is on for as long as the load of the
\* selected topic is outstanding; the completion of a superseded load does not
\* clear it.
C27_LoadingWhileOutstanding ==
  (\E load \in main.pending : load.id = main.current) => main.isLoading

\* C24 (as claimed): the nodes reported in the final Step of the articulation-
\* point generator are exactly the cut vertices of the sample graph (the nodes
\* whose removal leaves the other nodes disconnected), and the root of the
\* search is among them only if it has more than one child in the DFS tree.
C24_ReportsCutVertices ==
  gen.alg = "ap" /\ gen.pc = "done" =>
    LET nodes == Range(gen.graph.nodes)
        RECURSIVE reach(_, _)
        reach(seen, without) ==
          LET more == { v \in nodes \ ({without} \cup seen) :
                          \E s \in seen : v \in Range(gen.graph.adj[s]) }
          IN IF more = {} THEN seen ELSE reach(seen \cup more, without)
        isCut(c) == \E s \in nodes \ {c} : reach({s}, c) # nodes \ {c}
        reported == gen.steps[Len(gen.steps)].nodeSets
        root == gen.graph.nodes[1]
    IN /\ reported = { c \in nodes : isCut(c) }
       /\ root \in reported => gen.rootChildren > 1

\* C25 (as claimed): in the final Step of the Eulerian-path generator, the one
\* that reads 'Path complete! Every edge was visited exactly once.', the
\* highlighted path walks along edges of the input graph and passes over every
\* edge exactly once.
C25_PathCoversEveryEdge ==
  gen.alg = "euler" /\ gen.pc = "done" =>
    LET final == gen.steps[Len(gen.steps)]
        path == final.highlightedPath
        hops == { k \in 1..(Len(path) - 1) : TRUE }
        over(e) == { k \in hops : {path[k], path[k + 1]} = {e[1], e[2]} }
    IN final.description = "Path complete! Every edge was visited exactly once." =>
         /\ \A k \in hops : \E e \in Range(gen.graph.edges) : k \in over(e)
         /\ \A e \in Range(gen.graph.edges) : Cardinality(over(e)) = 1

\* C28: once play is pressed at an index below the last and the user does
\* nothing more, the index reaches the last index of the trace (of the longer
\* trace in the comparison) and the controller then stops playing by itself,
\* with no timeout left pending.
C28_AutoAdvanceReachesEnd ==
  (last.op = "play" /\ isPlaying[Root] /\ Index < TraceLen - 1)
    ~> (Index = TraceLen - 1 /\ ~isPlaying[Root] /\ timers = {} /\ queue = <<>>)

\* a run started at index 0 of a trace of MaxLen Steps has reached the last
\* index by timeouts alone and has stopped
C28_Witness ==
  /\ last.op = "flush" /\ last.was /\ last.from = MaxLen - 2
  /\ TraceLen = MaxLen /\ Index = MaxLen - 1
  /\ ~isPlaying[Root] /\ timers = {}

\* C30: every relabel Step of push-relabel follows a pass in which no push was
\* possible: with the flows and the heights as they were just before it, the
\* relabelled node had no neighbor with residual capacity at a strictly lower
\* height; and the Step gives the node the height 1 + the least height among
\* its neighbors with residual capacity.
C30_RelabelOnlyWhenStuck ==
  gen.alg = "pushrelabel" =>
    \A i \in 3..Len(gen.steps) :     \* Steps 1 and 2 are the opening ones
      gen.steps[i].description[1] = "relabel" =>
        LET u == gen.steps[i].currentNode
            before == [gen EXCEPT !.flows = gen.steps[i].flows,
                                  !.heights = gen.steps[i - 1].nodeHeights]
            open == { v \in Range(PrNeighbors(before, u)) : PrResidual(before, u, v) > 0 }
        IN /\ gen.steps[i - 1].flows = gen.steps[i].flows
           /\ \A v \in open : before.heights[v] >= before.heights[u]
           /\ open # {}
           /\ \A v \in open : gen.steps[i].nodeHeights[u] <= before.heights[v] + 1
           /\ \E v \in open : gen.steps[i].nodeHeights[u] = before.heights[v] + 1
           /\ gen.steps[i].description[2] = gen.steps[i].nodeHeights[u]

\* a run has returned in which a node was relabelled more than once and flow
\* was pushed back towards the source
C30_Witness ==
  /\ gen.alg = "pushrelabel" /\ gen.pc = "done" /\ gen.relabels >= 2
  /\ \E i \in 3..Len(gen.steps) :
       /\ gen.steps[i].description[1] = "relabel"
       /\ gen.steps[i].nodeHeights[gen.steps[i].currentNode] > 1

\* C29 (as claimed): in every Step of a flow-network generator (Ford-Fulkerson,
\* push-relabel, the max-flow introduction), the flow map satisfies
\* flow(u, v) = -flow(v, u) for every edge u -> v of the network; an entry the
\* map does not hold is read as 0, as the generators read it (flows[key] || 0).
C29_FlowIsSkewSymmetric ==
  gen.alg \in {"fordfulkerson", "pushrelabel", "intro"} =>
    LET edges == IF gen.alg = "fordfulkerson" THEN gen.edges ELSE gen.graph.edges
        flow(flows, key) == IF key \in DOMAIN flows THEN flows[key] ELSE 0
    IN \A i \in DOMAIN gen.steps :
         \A j \in DOMAIN edges :
           LET u == edges[j].from
               v == edges[j].to
           IN flow(gen.steps[i].flows, <<u, v>>) = 0 - flow(gen.steps[i].flows, <<v, u>>)
====
